---- MODULE Spec2Model ----
(***************************************************************************)
(* ABC/VEN analysis (enikey87/abcv-2025): the classifier analyzeABC and    *)
(* the four aggregation functions of src/analyzer.ts, as a state machine.  *)
(*                                                                         *)
(* The program computes with JavaScript numbers, i.e. IEEE 754 binary64.   *)
(* Counts, codes and quantities are small integers (exact in binary64) and *)
(* are TLA+ integers.  Every amount and every percentage is a binary64     *)
(* value, modelled bit for bit: a record [cls, sgn, exp, man] whose value  *)
(* is                                                                      *)
(*     sgn * man * 2^exp                                                   *)
(* with the 53-bit significand man held in limbs (see below), its top bit  *)
(* set.  Arithmetic is exact integer arithmetic on limbs followed by       *)
(* round-to-nearest, ties-to-even.  Exponent overflow and subnormals do    *)
(* not occur for the magnitudes the model draws and are not modelled.      *)
(***************************************************************************)
EXTENDS Integers, Sequences, FiniteSets, TLC

\* Significand width of a JavaScript number (binary64).
MantBits == 53

(***************************************************************************)
(* Natural numbers of any size as sequences of limbs in base LimbBase,     *)
(* least significant limb first, without leading (most significant) zero   *)
(* limbs; <<>> is 0.  These carry the exact intermediate results of the    *)
(* binary64 operations.                                                    *)
(***************************************************************************)
LimbBase == 2^14

\* Number of bits of the integer n >= 0
RECURSIVE BitLenInt(_)
BitLenInt(n) == IF n = 0 THEN 0 ELSE 1 + BitLenInt(n \div 2)

LimbBits == BitLenInt(LimbBase) - 1

RECURSIVE NatLimbs(_)
NatLimbs(n) ==
    IF n = 0 THEN <<>> ELSE <<n % LimbBase>> \o NatLimbs(n \div LimbBase)

LimbAt(a, i) == IF i >= 1 /\ i <= Len(a) THEN a[i] ELSE 0

RECURSIVE TrimLimbs(_)
TrimLimbs(a) ==
    IF Len(a) = 0 THEN <<>>
    ELSE IF a[Len(a)] # 0 THEN SubSeq(a, 1, Len(a))
    ELSE TrimLimbs(SubSeq(a, 1, Len(a) - 1))

RECURSIVE AddCarry(_, _, _, _, _)
AddCarry(a, b, i, c, acc) ==
    IF i > Len(a) /\ i > Len(b)
    THEN IF c = 0 THEN acc ELSE Append(acc, c)
    ELSE LET s == LimbAt(a, i) + LimbAt(b, i) + c
         IN  AddCarry(a, b, i + 1, s \div LimbBase, Append(acc, s % LimbBase))

AddLimbs(a, b) == AddCarry(a, b, 1, 0, <<>>)

\* a - b for a >= b
RECURSIVE SubBorrow(_, _, _, _, _)
SubBorrow(a, b, i, br, acc) ==
    IF i > Len(a) THEN TrimLimbs(acc)
    ELSE LET d == a[i] - LimbAt(b, i) - br
         IN  SubBorrow(a, b, i + 1, IF d < 0 THEN 1 ELSE 0,
                       Append(acc, IF d < 0 THEN d + LimbBase ELSE d))

SubLimbs(a, b) == SubBorrow(a, b, 1, 0, <<>>)

RECURSIVE CmpFrom(_, _, _)
CmpFrom(a, b, i) ==
    IF i = 0 THEN 0
    ELSE IF a[i] > b[i] THEN 1
    ELSE IF a[i] < b[i] THEN -1
    ELSE CmpFrom(a, b, i - 1)

\* -1, 0, 1 as a < b, a = b, a > b
CmpLimbs(a, b) ==
    IF Len(a) > Len(b) THEN 1
    ELSE IF Len(a) < Len(b) THEN -1
    ELSE CmpFrom(a, b, Len(a))

\* a * c for one limb-sized factor 0 <= c < LimbBase
RECURSIVE MulCarry(_, _, _, _, _)
MulCarry(a, c, i, carry, acc) ==
    IF i > Len(a) THEN acc \o NatLimbs(carry)
    ELSE LET t == a[i] * c + carry
         IN  MulCarry(a, c, i + 1, t \div LimbBase, Append(acc, t % LimbBase))

MulSmall(a, c) == IF c = 0 THEN <<>> ELSE MulCarry(a, c, 1, 0, <<>>)

\* a * LimbBase^q
ShiftLimbs(a, q) == IF Len(a) = 0 THEN <<>> ELSE [i \in 1..q |-> 0] \o a

\* a * 2^k
ShiftLeft(a, k) ==
    ShiftLimbs(IF k % LimbBits = 0 THEN a ELSE MulSmall(a, 2^(k % LimbBits)),
               k \div LimbBits)

RECURSIVE MulFrom(_, _, _, _)
MulFrom(a, b, i, acc) ==
    IF i > Len(b) THEN acc
    ELSE MulFrom(a, b, i + 1,
                 AddLimbs(acc, ShiftLimbs(MulSmall(a, b[i]), i - 1)))

MulLimbs(a, b) == MulFrom(a, b, 1, <<>>)

\* Number of bits of a
BitLen(a) ==
    IF Len(a) = 0 THEN 0
    ELSE (Len(a) - 1) * LimbBits + BitLenInt(a[Len(a)])

\* floor(a / 2^k)
ShiftRight(a, k) ==
    LET q == k \div LimbBits
        r == k % LimbBits
        n == Len(a) - q
    IN  IF n <= 0 THEN <<>>
        ELSE TrimLimbs([i \in 1..n |->
                 (a[i + q] \div 2^r)
                 + (LimbAt(a, i + q + 1) % 2^r) * 2^(LimbBits - r)])

\* Bit k of a, the least significant bit being bit 1
BitOf(a, k) ==
    (LimbAt(a, ((k - 1) \div LimbBits) + 1) \div 2^((k - 1) % LimbBits)) % 2

\* a mod 2^k # 0
LowBitsNonZero(a, k) ==
    \/ \E i \in 1..Len(a) : i <= k \div LimbBits /\ a[i] # 0
    \/ LimbAt(a, (k \div LimbBits) + 1) % 2^(k % LimbBits) # 0

(***************************************************************************)
(* binary64 values.                                                        *)
(***************************************************************************)
NaN == [cls |-> "nan", sgn |-> 1, exp |-> 0, man |-> <<>>]
Infinity(s) == [cls |-> "inf", sgn |-> s, exp |-> 0, man |-> <<>>]
Zero(s) == [cls |-> "zero", sgn |-> s, exp |-> 0, man |-> <<>>]
Finite(s, e, m) == [cls |-> "fin", sgn |-> s, exp |-> e, man |-> m]

\* The binary64 nearest to s * n * 2^e (n > 0, in limbs), ties to even; sticky
\* says that the exact value lies strictly between n * 2^e and (n + 1) * 2^e.
RoundNearestEven(s, n, e, sticky) ==
    LET L == BitLen(n) IN
    IF L <= MantBits
    THEN Finite(s, e - (MantBits - L), ShiftLeft(n, MantBits - L))
    ELSE LET d     == L - MantBits
             kept  == ShiftRight(n, d)
             guard == BitOf(n, d)
             st    == sticky \/ LowBitsNonZero(n, d - 1)
             up    == guard = 1 /\ (st \/ BitOf(kept, 1) = 1)
             r     == IF up THEN AddLimbs(kept, <<1>>) ELSE kept
         IN  IF BitLen(r) > MantBits
             THEN Finite(s, e + d + 1, ShiftRight(r, 1))
             ELSE Finite(s, e + d, r)

Sign(n) == IF n < 0 THEN -1 ELSE 1
Abs(n) == IF n < 0 THEN -n ELSE n

\* An integer as a number (exact: the model's integers are below 2^53).
FromInt(n) ==
    IF n = 0 THEN Zero(1)
    ELSE RoundNearestEven(Sign(n), NatLimbs(Abs(n)), 0, FALSE)

\* floor(rp / d) for rp < d * LimbBase: the estimate q, lowered until it fits.
RECURSIVE FitQuotient(_, _, _)
FitQuotient(rp, d, q) ==
    IF CmpLimbs(MulSmall(d, q), rp) > 0 THEN FitQuotient(rp, d, q - 1) ELSE q

\* floor(rp / d) for rp < d * LimbBase, estimated from the leading limbs.
QuotientLimb(rp, d) ==
    LET n   == Len(d)
        est == (LimbAt(rp, n + 1) * LimbBase + LimbAt(rp, n)) \div d[n]
    IN  FitQuotient(rp, d, IF est >= LimbBase THEN LimbBase - 1 ELSE est)

\* Long division r / d (0 <= r < d, in limbs), one limb of the quotient q per
\* step, until q holds two bits more than the significand or the remainder
\* vanishes.  The quotient so far is q * 2^e, the remainder r * 2^e.
RECURSIVE DivSteps(_, _, _, _)
DivSteps(q, r, d, e) ==
    IF Len(r) = 0 \/ BitLen(q) >= MantBits + 2 THEN [q |-> q, r |-> r, e |-> e]
    ELSE LET rp   == ShiftLimbs(r, 1)
             limb == QuotientLimb(rp, d)
         IN  DivSteps(IF Len(q) = 0 /\ limb = 0 THEN q ELSE <<limb>> \o q,
                      SubLimbs(rp, MulSmall(d, limb)), d, e - LimbBits)

\* Left shift that brings the top bit of a significand to the top of a limb
NormShift == (LimbBits - (MantBits % LimbBits)) % LimbBits

\* x / y
NumDiv(x, y) ==
    IF x.cls = "nan" \/ y.cls = "nan" THEN NaN
    ELSE IF x.cls = "inf"
    THEN IF y.cls = "inf" THEN NaN ELSE Infinity(x.sgn * y.sgn)
    ELSE IF y.cls = "inf" THEN Zero(x.sgn * y.sgn)
    ELSE IF y.cls = "zero"
    THEN IF x.cls = "zero" THEN NaN ELSE Infinity(x.sgn * y.sgn)
    ELSE IF x.cls = "zero" THEN Zero(x.sgn * y.sgn)
    ELSE LET mx == ShiftLeft(x.man, NormShift)
             my == ShiftLeft(y.man, NormShift)
             q0 == IF CmpLimbs(mx, my) >= 0 THEN 1 ELSE 0
             r0 == IF q0 = 1 THEN SubLimbs(mx, my) ELSE mx
             d  == DivSteps(NatLimbs(q0), r0, my, 0)
         IN  RoundNearestEven(x.sgn * y.sgn, d.q, d.e + x.exp - y.exp,
                              Len(d.r) # 0)

\* x * y
NumMul(x, y) ==
    IF x.cls = "nan" \/ y.cls = "nan" THEN NaN
    ELSE IF x.cls = "inf" \/ y.cls = "inf"
    THEN IF x.cls = "zero" \/ y.cls = "zero" THEN NaN
         ELSE Infinity(x.sgn * y.sgn)
    ELSE IF x.cls = "zero" \/ y.cls = "zero" THEN Zero(x.sgn * y.sgn)
    ELSE RoundNearestEven(x.sgn * y.sgn, MulLimbs(x.man, y.man),
                          x.exp + y.exp, FALSE)

\* x + y
NumAdd(x, y) ==
    IF x.cls = "nan" \/ y.cls = "nan" THEN NaN
    ELSE IF x.cls = "inf"
    THEN IF y.cls = "inf" /\ y.sgn # x.sgn THEN NaN ELSE x
    ELSE IF y.cls = "inf" THEN y
    ELSE IF x.cls = "zero"
    THEN IF y.cls = "zero"
         THEN Zero(IF x.sgn = -1 /\ y.sgn = -1 THEN -1 ELSE 1)
         ELSE y
    ELSE IF y.cls = "zero" THEN x
    ELSE LET e  == IF x.exp < y.exp THEN x.exp ELSE y.exp
             mx == ShiftLeft(x.man, x.exp - e)
             my == ShiftLeft(y.man, y.exp - e)
             c  == CmpLimbs(mx, my)
         IN  IF x.sgn = y.sgn
             THEN RoundNearestEven(x.sgn, AddLimbs(mx, my), e, FALSE)
             ELSE IF c = 0 THEN Zero(1)
             ELSE IF c > 0 THEN RoundNearestEven(x.sgn, SubLimbs(mx, my), e, FALSE)
             ELSE RoundNearestEven(y.sgn, SubLimbs(my, mx), e, FALSE)

NumNeg(x) == IF x.cls = "nan" THEN x ELSE [x EXCEPT !.sgn = -x.sgn]
NumSub(x, y) == NumAdd(x, NumNeg(y))

\* -1, 0, 1 as |x| < |y|, |x| = |y|, |x| > |y|, for finite non-zero x and y
CmpMagnitude(x, y) ==
    IF x.exp > y.exp THEN 1
    ELSE IF x.exp < y.exp THEN -1
    ELSE CmpLimbs(x.man, y.man)

\* x < y (false whenever either is NaN)
NumLt(x, y) ==
    IF x.cls = "nan" \/ y.cls = "nan" THEN FALSE
    ELSE IF x.cls = "zero" /\ y.cls = "zero" THEN FALSE
    ELSE IF x.cls = "zero" THEN y.sgn = 1
    ELSE IF y.cls = "zero" THEN x.sgn = -1
    ELSE IF x.sgn # y.sgn THEN x.sgn = -1
    ELSE IF x.cls = "inf" THEN y.cls # "inf" /\ x.sgn = -1
    ELSE IF y.cls = "inf" THEN y.sgn = 1
    ELSE IF x.sgn = 1 THEN CmpMagnitude(x, y) < 0
    ELSE CmpMagnitude(x, y) > 0

(***************************************************************************)
(* types.ts: the records of the program.                                   *)
(***************************************************************************)
ABCCategory == {"A", "B", "C"}
VENCategory == {"V", "E", "N"}

\* The literals 0, 80, 95 and 100 of analyzer.ts
NumZero == Zero(1)
ThresholdA == FromInt(80)
ThresholdB == FromInt(95)
Hundred == FromInt(100)

\* A decimal literal n/d as parseFloat and the compiler read it
Decimal(n, d) == NumDiv(FromInt(n), FromInt(d))

DrugItem(code, amount, ven) ==
    [code |-> code, name |-> "drug", unit |-> "pack", quantity |-> 10,
     amount |-> amount, ven |-> ven]

\* { ...item, percentOfTotal, cumulativePercent, abc }
AnalyzedItem(item, percentOfTotal, cumulativePercent, abc) ==
    [code |-> item.code, name |-> item.name, unit |-> item.unit,
     quantity |-> item.quantity, amount |-> item.amount, ven |-> item.ven,
     percentOfTotal |-> percentOfTotal,
     cumulativePercent |-> cumulativePercent, abc |-> abc]

CategoryStats(count, amount, percentCount, percentAmount) ==
    [count |-> count, amount |-> amount,
     percentCount |-> percentCount, percentAmount |-> percentAmount]

(***************************************************************************)
(* analyzer.ts                                                             *)
(***************************************************************************)
\* The one element of a set
Only(set) == CHOOSE element \in set : TRUE

\* The amounts of the items from low to high are added to sum, one after
\* another in the order of the array.  The range is halved, and the lower
\* half is added up before the upper one, only to keep the evaluation
\* shallow.
RECURSIVE SumBetween(_, _, _, _)
SumBetween(seq, low, high, sum) ==
    IF low > high THEN sum
    ELSE IF low = high THEN NumAdd(sum, seq[low].amount)
    ELSE LET mid == low + ((high - low) \div 2)
         IN  Only({SumBetween(seq, mid + 1, high, lower) :
                       lower \in {SumBetween(seq, low, mid, sum)}})

\* items.reduce((sum, item) => sum + item.amount, 0)
SumFrom(seq, i, sum) == SumBetween(seq, i, Len(seq), sum)

SumAmounts(seq) == SumFrom(seq, 1, NumZero)

\* Fault model: the ratio without the factor 100
Ratio(x, y) == NumDiv(x, y)

\* (x / y) * 100
Percent(x, y) == NumMul(NumDiv(x, y), Hundred)

\* The comparator (a, b) => b.amount - a.amount orders a before b
ComesBefore(a, b) == NumLt(NumSub(b.amount, a.amount), NumZero)

\* Array.prototype.sort of the engine (V8's TimSort, array-sort.tq) with
\* this comparator.  The array is cut into runs: a run is the stretch found
\* in order (reversed when the comparator puts each element before its
\* predecessor), filled up to the minimum run length by binary insertion.
\* An array of fewer than 64 elements is one run; a longer one has runs of
\* 32 to 64 elements, which are merged, galloping included.  A comparator
\* result NaN (an amount NaN, or two equal infinite amounts) counts as 0, and
\* the order is then the one these steps give.

\* An array with its elements evaluated and stored
Stored(array) == SubSeq(array, 1, Len(array))

\* The comparator is a pure function of two items: order[i][j] is whether
\* it puts the item at index i of the array before the one at index j.  The
\* engine's steps below move the indexes of the items.
Order(seq) ==
    Stored([i \in 1..Len(seq) |->
               Stored([j \in 1..Len(seq) |-> ComesBefore(seq[i], seq[j])])])

\* array[pos], positions counted from 0 as in the engine
At(array, pos) == array[pos + 1]

\* Fault model: the element is not stored
Unstored(array, pos, element) == array

\* array[pos] = element
Put(array, pos, element) ==
    SubSeq(array, 1, pos) \o <<element>> \o SubSeq(array, pos + 2, Len(array))

\* Copy(source, srcPos, target, dstPos, length); the ranges may overlap
Copy(source, srcPos, target, dstPos, length) ==
    SubSeq(target, 1, dstPos)
        \o SubSeq(source, srcPos + 1, srcPos + length)
        \o SubSeq(target, dstPos + length + 1, Len(target))

\* The elements in reverse order
RECURSIVE Reversed(_)
Reversed(seq) ==
    IF Len(seq) < 2 THEN seq
    ELSE LET half == Len(seq) \div 2
         IN  Reversed(SubSeq(seq, half + 1, Len(seq)))
                 \o Reversed(SubSeq(seq, 1, half))

\* ReverseRange(array, from, to)
ReverseRange(array, from, to) ==
    SubSeq(array, 1, from)
        \o Reversed(SubSeq(array, from + 1, to))
        \o SubSeq(array, to + 1, Len(array))

\* ComputeMinRunLength: n itself below 64, else a length from 32 to 64
RECURSIVE ComputeMinRunLength(_, _)
ComputeMinRunLength(n, r) ==
    IF n >= 64
    THEN ComputeMinRunLength(n \div 2, IF n % 2 = 1 THEN 1 ELSE r)
    ELSE n + r

\* The loop of CountAndMakeRun: each element is compared with its
\* predecessor, the run goes on while the comparisons are like the first.
\* The position after the run.
RECURSIVE RunLength(_, _, _, _, _)
RunLength(order, work, isDescending, idx, high) ==
    IF idx < high /\ order[At(work, idx)][At(work, idx - 1)] = isDescending
    THEN RunLength(order, work, isDescending, idx + 1, high)
    ELSE idx

\* CountAndMakeRun: the position after the run that starts at low
CountRun(order, work, low, high) ==
    IF low + 1 = high THEN high
    ELSE RunLength(order, work, order[At(work, low + 1)][At(work, low)],
                   low + 2, high)

\* CountAndMakeRun: a run in which every element comes before its
\* predecessor is reversed
MakeRun(order, work, low, end) ==
    IF end - low > 1 /\ order[At(work, low + 1)][At(work, low)]
    THEN ReverseRange(work, low, end)
    ELSE work

\* The binary search of BinaryInsertionSort
RECURSIVE InsertionPoint(_, _, _, _, _)
InsertionPoint(order, work, pivot, left, right) ==
    IF left < right
    THEN LET mid == left + ((right - left) \div 2)
         IN  IF order[pivot][At(work, mid)]
             THEN InsertionPoint(order, work, pivot, left, mid)
             ELSE InsertionPoint(order, work, pivot, mid + 1, right)
    ELSE left

\* for (p = start; p > left; --p) work[p] = work[p - 1]; work[left] = pivot
Inserted(work, left, start) ==
    SubSeq(work, 1, left)
        \o <<work[start + 1]>>
        \o SubSeq(work, left + 1, start)
        \o SubSeq(work, start + 2, Len(work))

\* BinaryInsertionSort: the elements from low to start are in order, the
\* ones from start to high are inserted one after the other, those before
\* the middle of the stretch first
RECURSIVE BinaryInsertionSort(_, _, _, _, _)
BinaryInsertionSort(order, work, low, start, high) ==
    IF start >= high THEN work
    ELSE IF start + 1 = high
    THEN Inserted(work,
                  InsertionPoint(order, work, At(work, start), low, start),
                  start)
    ELSE LET mid == start + ((high - start) \div 2)
         IN  Only({BinaryInsertionSort(order, lower, low, mid, high) :
                       lower \in {BinaryInsertionSort(order, work, low, start,
                                                      mid)}})

\* The while (offset < maxOfs) loops of GallopLeft and GallopRight.  The
\* element at from + step * offset is compared with key (key is the first
\* argument of the comparator when keyFirst); the loop goes on while the
\* answer, that the first comes before the second, is goOn.  The result is
\* <<lastOfs, offset>>.
RECURSIVE Gallop(_, _, _, _, _, _, _, _, _, _)
Gallop(order, array, key, from, step, keyFirst, goOn, lastOfs, offset,
       maxOfs) ==
    IF /\ offset < maxOfs
       /\ (IF keyFirst
           THEN order[key][At(array, from + step * offset)]
           ELSE order[At(array, from + step * offset)][key]) = goOn
    THEN Gallop(order, array, key, from, step, keyFirst, goOn, offset,
                2 * offset + 1, maxOfs)
    ELSE <<lastOfs, IF offset > maxOfs THEN maxOfs ELSE offset>>

\* The binary search that ends GallopLeft (keyFirst FALSE) and GallopRight
RECURSIVE GallopSearch(_, _, _, _, _, _, _)
GallopSearch(order, array, key, base, keyFirst, lastOfs, offset) ==
    IF lastOfs < offset
    THEN LET m == lastOfs + ((offset - lastOfs) \div 2)
         IN  IF keyFirst
             THEN IF order[key][At(array, base + m)]
                  THEN GallopSearch(order, array, key, base, keyFirst,
                                    lastOfs, m)
                  ELSE GallopSearch(order, array, key, base, keyFirst,
                                    m + 1, offset)
             ELSE IF order[At(array, base + m)][key]
                  THEN GallopSearch(order, array, key, base, keyFirst,
                                    m + 1, offset)
                  ELSE GallopSearch(order, array, key, base, keyFirst,
                                    lastOfs, m)
    ELSE offset

\* After galloping towards the end: lastOfs += hint; offset += hint
Forwards(found, hint) == <<found[1] + hint, found[2] + hint>>

\* After galloping towards the start: lastOfs = hint - offset;
\* offset = hint - lastOfs
Backwards(found, hint) == <<hint - found[2], hint - found[1]>>

\* lastOfs++, then the binary search
SearchBetween(order, array, key, base, keyFirst, found) ==
    GallopSearch(order, array, key, base, keyFirst, found[1] + 1, found[2])

\* GallopLeft: the number of elements of array[base .. base + length) that
\* stay in front of key, key going before the elements it ties with
GallopLeft(order, array, key, base, length, hint) ==
    SearchBetween(
        order, array, key, base, FALSE,
        IF order[At(array, base + hint)][key]
        THEN Forwards(Gallop(order, array, key, base + hint, 1, FALSE, TRUE,
                             0, 1, length - hint), hint)
        ELSE Backwards(Gallop(order, array, key, base + hint, -1, FALSE,
                              FALSE, 0, 1, hint + 1), hint))

\* Fault model: the gallop into run A stops before the elements that equal
\* the key, not behind them
GallopBeforeEquals(order, array, key, base, length, hint) ==
    GallopLeft(order, array, key, base, length, hint)

\* GallopRight: the same, key going behind the elements it ties with
GallopRight(order, array, key, base, length, hint) ==
    SearchBetween(
        order, array, key, base, TRUE,
        IF order[key][At(array, base + hint)]
        THEN Backwards(Gallop(order, array, key, base + hint, -1, TRUE, TRUE,
                              0, 1, hint + 1), hint)
        ELSE Forwards(Gallop(order, array, key, base + hint, 1, TRUE, FALSE,
                             0, 1, length - hint), hint))

\* kMinGallopWins, and the minGallop a sort starts with
MinGallopWins == 7

\* The state of a merge: work is the array, temp the copy of the shorter
\* run, base the start of run A, cursor the position in the run that stays
\* in work, stored the minGallop of the sort state; label is the label the
\* code jumps to ("" inside the loops), at the loop the merge is in: "one"
\* is the element by element loop, "first" the galloping loop with
\* firstIteration set, "gallop" the galloping loop after that
Merging(work, temp, base, dest, cursorTemp, cursor, lengthA, lengthB,
        minGallop, label) ==
    [work |-> work, temp |-> temp, base |-> base, dest |-> dest,
     cursorTemp |-> cursorTemp, cursor |-> cursor, lengthA |-> lengthA,
     lengthB |-> lengthB, minGallop |-> minGallop, stored |-> minGallop,
     nofWinsA |-> 0, nofWinsB |-> 0, label |-> label, at |-> "one"]

Jump(m, label) == [m EXCEPT !.label = label]

\* ++nofWinsA; nofWinsB = 0
WonA(m) == [m EXCEPT !.nofWinsA = @ + 1, !.nofWinsB = 0]

\* ++nofWinsB; nofWinsA = 0
WonB(m) == [m EXCEPT !.nofWinsB = @ + 1, !.nofWinsA = 0]

\* minGallop = SmiMax(1, minGallop - 1); sortState.minGallop = minGallop
Rewarded(m) ==
    [m EXCEPT !.minGallop = IF @ > 1 THEN @ - 1 ELSE 1,
              !.stored = IF m.minGallop > 1 THEN m.minGallop - 1 ELSE 1]

\* break out of the element by element loop: ++minGallop;
\* firstIteration = true
ToGallop(m) == [m EXCEPT !.minGallop = @ + 1, !.at = "first"]

\* The galloping loop is left: ++minGallop; sortState.minGallop = minGallop;
\* then the outer loop starts over with nofWinsA = 0; nofWinsB = 0
FromGallop(m) ==
    [m EXCEPT !.minGallop = @ + 1, !.stored = m.minGallop + 1,
              !.nofWinsA = 0, !.nofWinsB = 0, !.at = "one"]

\* The loops of a merge move at least one element in every round, and the
\* galloping loop is left once for each time it is entered
MergeRounds(m) == 2 * (m.lengthA + m.lengthB) + 2

\* The sort state after a merge
Merged(st, work, m) == [st EXCEPT !.work = work, !.minGallop = m.stored]

\* MergeLow: workArray[dest++] = workArray[cursorB++]; --lengthB
LowMoveB(m) ==
    [m EXCEPT !.work = Put(m.work, m.dest, At(m.work, m.cursor)),
              !.dest = @ + 1, !.cursor = @ + 1, !.lengthB = @ - 1]

\* MergeLow: workArray[dest++] = tempArray[cursorTemp++]; --lengthA
LowMoveA(m) ==
    [m EXCEPT !.work = Put(m.work, m.dest, At(m.temp, m.cursorTemp)),
              !.dest = @ + 1, !.cursorTemp = @ + 1, !.lengthA = @ - 1]

\* MergeLow: one round of the loop that merges element by element until
\* one run has won minGallop times in a row
MergeLowOneB(m) ==
    IF m.lengthB = 0 THEN Jump(m, "Succeed")
    ELSE IF m.nofWinsB >= m.minGallop THEN ToGallop(m)
    ELSE m

MergeLowOneA(m) ==
    IF m.lengthA = 1 THEN Jump(m, "CopyB")
    ELSE IF m.nofWinsA >= m.minGallop THEN ToGallop(m)
    ELSE m

MergeLowOne(order, m) ==
    IF order[At(m.work, m.cursor)][At(m.temp, m.cursorTemp)]
    THEN MergeLowOneB(WonB(LowMoveB(m)))
    ELSE MergeLowOneA(WonA(LowMoveA(m)))

\* MergeLow in galloping mode: nofWinsA elements of temp are copied
LowCopyA(m, nofWinsA) ==
    [m EXCEPT !.work = Copy(m.temp, m.cursorTemp, m.work, m.dest, nofWinsA),
              !.dest = @ + nofWinsA, !.cursorTemp = @ + nofWinsA,
              !.lengthA = @ - nofWinsA, !.nofWinsA = nofWinsA]

\* MergeLow in galloping mode: nofWinsB elements of run B are moved
LowCopyB(m, nofWinsB) ==
    [m EXCEPT !.work = Copy(m.work, m.cursor, m.work, m.dest, nofWinsB),
              !.dest = @ + nofWinsB, !.cursor = @ + nofWinsB,
              !.lengthB = @ - nofWinsB, !.nofWinsB = nofWinsB]

\* MergeLow: one round of the galloping loop, one operator for each stretch
\* between two jumps out of it
MergeLowGallopEnd(m) ==
    IF m.lengthA = 1 THEN Jump(m, "CopyB")
    ELSE [m EXCEPT !.at = "gallop"]

MergeLowGallopB(m) ==
    IF m.nofWinsB > 0 /\ m.lengthB = 0 THEN Jump(m, "Succeed")
    ELSE MergeLowGallopEnd(LowMoveA(m))

MergeLowGallopMid(order, m) ==
    IF m.lengthB = 0 THEN Jump(m, "Succeed")
    ELSE MergeLowGallopB(
             LowCopyB(m, GallopLeft(order, m.work, At(m.temp, m.cursorTemp),
                                    m.cursor, m.lengthB, 0)))

MergeLowGallopA(order, m) ==
    IF m.nofWinsA > 0 /\ m.lengthA = 1 THEN Jump(m, "CopyB")
    ELSE IF m.nofWinsA > 0 /\ m.lengthA = 0 THEN Jump(m, "Succeed")
    ELSE MergeLowGallopMid(order, LowMoveB(m))

MergeLowGallop(order, m) ==
    IF \/ m.nofWinsA >= MinGallopWins
       \/ m.nofWinsB >= MinGallopWins
       \/ m.at = "first"
    THEN MergeLowGallopA(
             order,
             LowCopyA(Rewarded(m),
                      GallopRight(order, m.temp, At(m.work, m.cursor),
                                  m.cursorTemp, m.lengthA, 0)))
    ELSE FromGallop(m)

\* MergeLow: one round of the loop the merge is in
MergeLowRound(order, m) ==
    IF m.at = "one" THEN MergeLowOne(order, m) ELSE MergeLowGallop(order, m)

\* MergeLow: while (true) { element by element; ++minGallop; galloping;
\* ++minGallop }, as many rounds as rounds says or until a label is jumped
\* to; the rounds are done half by half
RECURSIVE MergeLowLoop(_, _, _)
MergeLowLoop(order, m, rounds) ==
    IF m.label # "" \/ rounds = 0 THEN m
    ELSE IF rounds = 1 THEN MergeLowRound(order, m)
    ELSE Only({MergeLowLoop(order, before, rounds - (rounds \div 2)) :
                   before \in {MergeLowLoop(order, m, rounds \div 2)}})

\* MergeLow: the labels Succeed and CopyB
MergeLowEnd(st, m) ==
    Merged(st,
           IF m.label = "Succeed"
           THEN Copy(m.temp, m.cursorTemp, m.work, m.dest, m.lengthA)
           ELSE Put(Copy(m.work, m.cursor, m.work, m.dest, m.lengthB),
                    m.dest + m.lengthB, At(m.temp, m.cursorTemp)),
           m)

MergeLowFrom(order, st, m) ==
    MergeLowEnd(st, MergeLowLoop(order, m, MergeRounds(m)))

\* MergeLow: run A, the shorter one, is copied to temp and the runs are
\* merged from the front
MergeLow(order, st, baseA, lengthA, baseB, lengthB) ==
    MergeLowFrom(
        order, st,
        Merging(Put(st.work, baseA, At(st.work, baseB)),
                SubSeq(st.work, baseA + 1, baseA + lengthA),
                baseA, baseA + 1, 0, baseB + 1, lengthA, lengthB - 1,
                st.minGallop,
                IF lengthB = 1 THEN "Succeed"
                ELSE IF lengthA = 1 THEN "CopyB" ELSE ""))

\* MergeHigh: workArray[dest--] = workArray[cursorA--]; --lengthA
HighMoveA(m) ==
    [m EXCEPT !.work = Put(m.work, m.dest, At(m.work, m.cursor)),
              !.dest = @ - 1, !.cursor = @ - 1, !.lengthA = @ - 1]

\* MergeHigh: workArray[dest--] = tempArray[cursorTemp--]; --lengthB
HighMoveB(m) ==
    [m EXCEPT !.work = Put(m.work, m.dest, At(m.temp, m.cursorTemp)),
              !.dest = @ - 1, !.cursorTemp = @ - 1, !.lengthB = @ - 1]

\* MergeHigh: one round of the loop that merges element by element
MergeHighOneA(m) ==
    IF m.lengthA = 0 THEN Jump(m, "Succeed")
    ELSE IF m.nofWinsA >= m.minGallop THEN ToGallop(m)
    ELSE m

MergeHighOneB(m) ==
    IF m.lengthB = 1 THEN Jump(m, "CopyA")
    ELSE IF m.nofWinsB >= m.minGallop THEN ToGallop(m)
    ELSE m

MergeHighOne(order, m) ==
    IF order[At(m.temp, m.cursorTemp)][At(m.work, m.cursor)]
    THEN MergeHighOneA(WonA(HighMoveA(m)))
    ELSE MergeHighOneB(WonB(HighMoveB(m)))

\* MergeHigh in galloping mode: nofWinsA elements of run A are moved
HighCopyA(m, nofWinsA) ==
    [m EXCEPT !.work = Copy(m.work, m.cursor - nofWinsA + 1, m.work,
                            m.dest - nofWinsA + 1, nofWinsA),
              !.dest = @ - nofWinsA, !.cursor = @ - nofWinsA,
              !.lengthA = @ - nofWinsA, !.nofWinsA = nofWinsA]

\* MergeHigh in galloping mode: nofWinsB elements of temp are copied
HighCopyB(m, nofWinsB) ==
    [m EXCEPT !.work = Copy(m.temp, m.cursorTemp - nofWinsB + 1, m.work,
                            m.dest - nofWinsB + 1, nofWinsB),
              !.dest = @ - nofWinsB, !.cursorTemp = @ - nofWinsB,
              !.lengthB = @ - nofWinsB, !.nofWinsB = nofWinsB]

\* MergeHigh: one round of the galloping loop
MergeHighGallopEnd(m) ==
    IF m.lengthA = 0 THEN Jump(m, "Succeed")
    ELSE [m EXCEPT !.at = "gallop"]

MergeHighGallopB(m) ==
    IF m.nofWinsB > 0 /\ m.lengthB = 1 THEN Jump(m, "CopyA")
    ELSE IF m.nofWinsB > 0 /\ m.lengthB = 0 THEN Jump(m, "Succeed")
    ELSE MergeHighGallopEnd(HighMoveA(m))

MergeHighGallopMid(order, m) ==
    IF m.lengthB = 1 THEN Jump(m, "CopyA")
    ELSE MergeHighGallopB(
             HighCopyB(m, m.lengthB
                          - GallopLeft(order, m.temp, At(m.work, m.cursor),
                                       0, m.lengthB, m.lengthB - 1)))

MergeHighGallopA(order, m) ==
    IF m.nofWinsA > 0 /\ m.lengthA = 0 THEN Jump(m, "Succeed")
    ELSE MergeHighGallopMid(order, HighMoveB(m))

MergeHighGallop(order, m) ==
    IF \/ m.nofWinsA >= MinGallopWins
       \/ m.nofWinsB >= MinGallopWins
       \/ m.at = "first"
    THEN MergeHighGallopA(
             order,
             HighCopyA(Rewarded(m),
                       m.lengthA
                       - GallopRight(order, m.work, At(m.temp, m.cursorTemp),
                                     m.base, m.lengthA, m.lengthA - 1)))
    ELSE FromGallop(m)

\* MergeHigh: one round of the loop the merge is in
MergeHighRound(order, m) ==
    IF m.at = "one" THEN MergeHighOne(order, m) ELSE MergeHighGallop(order, m)

\* MergeHigh: while (true) { element by element; ++minGallop; galloping;
\* ++minGallop }
RECURSIVE MergeHighLoop(_, _, _)
MergeHighLoop(order, m, rounds) ==
    IF m.label # "" \/ rounds = 0 THEN m
    ELSE IF rounds = 1 THEN MergeHighRound(order, m)
    ELSE Only({MergeHighLoop(order, before, rounds - (rounds \div 2)) :
                   before \in {MergeHighLoop(order, m, rounds \div 2)}})

\* MergeHigh: the labels Succeed and CopyA
MergeHighEnd(st, m) ==
    Merged(st,
           IF m.label = "Succeed"
           THEN Copy(m.temp, 0, m.work, m.dest - (m.lengthB - 1), m.lengthB)
           ELSE Put(Copy(m.work, m.cursor - m.lengthA + 1, m.work,
                         m.dest - m.lengthA + 1, m.lengthA),
                    m.dest - m.lengthA, At(m.temp, m.cursorTemp)),
           m)

MergeHighFrom(order, st, m) ==
    MergeHighEnd(st, MergeHighLoop(order, m, MergeRounds(m)))

\* MergeHigh: run B, the shorter one, is copied to temp and the runs are
\* merged from the back
MergeHigh(order, st, baseA, lengthA, baseB, lengthB) ==
    MergeHighFrom(
        order, st,
        Merging(Put(st.work, baseB + lengthB - 1,
                    At(st.work, baseA + lengthA - 1)),
                SubSeq(st.work, baseB + 1, baseB + lengthB),
                baseA, baseB + lengthB - 2, lengthB - 1, baseA + lengthA - 2,
                lengthA - 1, lengthB, st.minGallop,
                IF lengthA = 1 THEN "Succeed"
                ELSE IF lengthB = 1 THEN "CopyA" ELSE ""))

\* The pending runs are pairs <<base, length>>
RunBase(st, n) == st.runs[n + 1][1]
RunLen(st, n) == st.runs[n + 1][2]

\* Fault model: two runs are left as they are
RunsLeftApart(order, st, baseA, lengthA, baseB, lengthB) == st

\* MergeAt after the two gallops: the elements of run A that are in place
\* already are left out (baseA, lengthA), and so are those of run B
MergeRuns(order, st, baseA, lengthA, baseB, lengthB) ==
    IF lengthB = 0 THEN st
    ELSE IF lengthA <= lengthB
    THEN MergeLow(order, st, baseA, lengthA, baseB, lengthB)
    ELSE MergeHigh(order, st, baseA, lengthA, baseB, lengthB)

MergeFrom(order, st, baseA, lengthA, baseB, lengthB) ==
    IF lengthA = 0 THEN st
    ELSE MergeRuns(order, st, baseA, lengthA, baseB,
                   GallopLeft(order, st.work,
                              At(st.work, baseA + lengthA - 1), baseB,
                              lengthB, lengthB - 1))

MergeSkipping(order, st, baseA, lengthA, baseB, lengthB, k) ==
    MergeFrom(order, st, baseA + k, lengthA - k, baseB, lengthB)

\* MergeAt: the runs i and i + 1 of the stack become one run
MergeAt(order, st, i) ==
    MergeSkipping(
        order,
        [st EXCEPT !.runs =
            SubSeq(st.runs, 1, i)
                \o <<(<<RunBase(st, i), RunLen(st, i) + RunLen(st, i + 1)>>)>>
                \o SubSeq(st.runs, i + 3, Len(st.runs))],
        RunBase(st, i), RunLen(st, i), RunBase(st, i + 1), RunLen(st, i + 1),
        GallopRight(order, st.work, At(st.work, RunBase(st, i + 1)),
                    RunBase(st, i), RunLen(st, i), 0))

\* RunInvariantEstablished(pendingRuns, n)
RunInvariantEstablished(st, n) ==
    n < 2 \/ RunLen(st, n - 2) > RunLen(st, n - 1) + RunLen(st, n)

\* MergeCollapse: runs are merged until the lengths on the stack decrease
\* fast enough
RECURSIVE MergeCollapse(_, _)
MergeCollapse(order, st) ==
    IF Len(st.runs) > 1
    THEN LET n == Len(st.runs) - 2
         IN  IF \/ ~RunInvariantEstablished(st, n + 1)
                \/ ~RunInvariantEstablished(st, n)
             THEN MergeCollapse(
                      order,
                      MergeAt(order, st,
                              IF RunLen(st, n - 1) < RunLen(st, n + 1)
                              THEN n - 1 ELSE n))
             ELSE IF RunLen(st, n) <= RunLen(st, n + 1)
             THEN MergeCollapse(order, MergeAt(order, st, n))
             ELSE st
    ELSE st

\* MergeForceCollapse: all runs are merged
RECURSIVE MergeForceCollapse(_, _)
MergeForceCollapse(order, st) ==
    IF Len(st.runs) > 1
    THEN LET n == Len(st.runs) - 2
         IN  MergeForceCollapse(
                 order,
                 MergeAt(order, st,
                         IF n > 0 /\ RunLen(st, n - 1) < RunLen(st, n + 1)
                         THEN n - 1 ELSE n))
    ELSE st

\* PushRun(sortState, low, length)
PushRun(st, work, low, length) ==
    [st EXCEPT !.work = work, !.runs = Append(@, <<low, length>>)]

\* One round of the loop of ArrayTimSortImpl, the run found ending at end:
\* a run shorter than minRunLength is filled up by BinaryInsertionSort
ForcedRun(order, work, low, end, forced) ==
    IF end < forced
    THEN BinaryInsertionSort(order, MakeRun(order, work, low, end), low, end,
                             forced)
    ELSE MakeRun(order, work, low, end)

\* ArrayTimSortImpl: while (remaining != 0) { ... }; MergeForceCollapse
RECURSIVE ArrayTimSortImpl(_, _, _, _, _)
SortRun(order, st, low, high, minRunLength, end) ==
    LET forced == IF end - low < minRunLength
                  THEN IF low + minRunLength < high
                       THEN low + minRunLength ELSE high
                  ELSE end
    IN  ArrayTimSortImpl(
            order,
            MergeCollapse(
                order,
                PushRun(st, ForcedRun(order, st.work, low, end, forced),
                        low, forced - low)),
            forced, high, minRunLength)

ArrayTimSortImpl(order, st, low, high, minRunLength) ==
    IF low = high THEN MergeForceCollapse(order, st).work
    ELSE SortRun(order, st, low, high, minRunLength,
                 CountRun(order, st.work, low, high))

\* The indexes from low to high in order
RECURSIVE Indexes(_, _)
Indexes(low, high) ==
    IF low > high THEN <<>>
    ELSE IF low = high THEN <<low>>
    ELSE LET mid == low + ((high - low) \div 2)
         IN  Indexes(low, mid) \o Indexes(mid + 1, high)

\* The indexes of the items in the order the sort leaves them in
SortedIndexes(order, high) ==
    IF high < 2 THEN Indexes(1, high)
    ELSE ArrayTimSortImpl(
             order,
             [work |-> Indexes(1, high), runs |-> <<>>,
              minGallop |-> MinGallopWins],
             0, high, ComputeMinRunLength(high, 0))

\* The items at the indexes
Arranged(seq, indexes) == Stored([k \in 1..Len(seq) |-> seq[indexes[k]]])

\* sort((a, b) => b.amount - a.amount) on an array
TimSort(work) == Arranged(work, SortedIndexes(Order(work), Len(work)))

\* [...items].sort((a, b) => b.amount - a.amount)
SortByAmountDesc(seq) == TimSort(seq)

\* Fault model: tier A ends at half of the total
CategoryOfHalf(cumulativePercent) ==
    IF NumLt(cumulativePercent, FromInt(50)) THEN "A"
    ELSE IF NumLt(cumulativePercent, ThresholdB) THEN "B"
    ELSE "C"

\* The category from the cumulative percent BEFORE the current item
CategoryOf(cumulativePercent) ==
    IF NumLt(cumulativePercent, ThresholdA) THEN "A"
    ELSE IF NumLt(cumulativePercent, ThresholdB) THEN "B"
    ELSE "C"

\* Fault model: the category is taken AFTER adding the current item
RECURSIVE MapAfterAdding(_, _, _, _, _)
MapAfterAdding(sorted, totalAmount, i, cumulativePercent, acc) ==
    IF i > Len(sorted) THEN acc
    ELSE LET item           == sorted[i]
             percentOfTotal == Percent(item.amount, totalAmount)
             cumulative     == NumAdd(cumulativePercent, percentOfTotal)
             abc            == CategoryOf(cumulative)
         IN  MapAfterAdding(sorted, totalAmount, i + 1, cumulative,
                            Append(acc, AnalyzedItem(item, percentOfTotal,
                                                     cumulative, abc)))

\* Fault model: cumulativePercent is assigned, not accumulated
RECURSIVE MapOverwriting(_, _, _, _, _)
MapOverwriting(sorted, totalAmount, i, cumulativePercent, acc) ==
    IF i > Len(sorted) THEN acc
    ELSE LET item           == sorted[i]
             percentOfTotal == Percent(item.amount, totalAmount)
             abc            == CategoryOf(cumulativePercent)
             cumulative     == percentOfTotal
         IN  MapOverwriting(sorted, totalAmount, i + 1, cumulative,
                            Append(acc, AnalyzedItem(item, percentOfTotal,
                                                     cumulative, abc)))

\* Fault model: the category is taken from the item's own share
RECURSIVE MapByOwnShare(_, _, _, _, _)
MapByOwnShare(sorted, totalAmount, i, cumulativePercent, acc) ==
    IF i > Len(sorted) THEN acc
    ELSE LET item           == sorted[i]
             percentOfTotal == Percent(item.amount, totalAmount)
             abc            == CategoryOf(percentOfTotal)
             cumulative     == NumAdd(cumulativePercent, percentOfTotal)
         IN  MapByOwnShare(sorted, totalAmount, i + 1, cumulative,
                           Append(acc, AnalyzedItem(item, percentOfTotal,
                                                    cumulative, abc)))

\* Fault model: the record gets the value the category was taken from
RECURSIVE MapStoringBefore(_, _, _, _, _)
MapStoringBefore(sorted, totalAmount, i, cumulativePercent, acc) ==
    IF i > Len(sorted) THEN acc
    ELSE LET item           == sorted[i]
             percentOfTotal == Percent(item.amount, totalAmount)
             abc            == CategoryOf(cumulativePercent)
             cumulative     == NumAdd(cumulativePercent, percentOfTotal)
         IN  MapStoringBefore(sorted, totalAmount, i + 1, cumulative,
                              Append(acc, AnalyzedItem(item, percentOfTotal,
                                                       cumulativePercent,
                                                       abc)))

\* The callback of sorted.map(...) for the item at index i: done holds the
\* running cumulativePercent and the items mapped so far
MapItem(sorted, totalAmount, i, done) ==
    LET item           == sorted[i]
        percentOfTotal == Percent(item.amount, totalAmount)
        abc            == CategoryOf(done.cumulativePercent)
        cumulative     == NumAdd(done.cumulativePercent, percentOfTotal)
    IN  [cumulativePercent |-> cumulative,
         items |-> Append(done.items,
                          AnalyzedItem(item, percentOfTotal, cumulative, abc))]

\* The callback for the items from low to high, one after another in the
\* order of the array.  The range is halved, and the lower half is mapped
\* before the upper one, only to keep the evaluation shallow.
RECURSIVE MapBetween(_, _, _, _, _)
MapBetween(sorted, totalAmount, low, high, done) ==
    IF low > high THEN done
    ELSE IF low = high THEN MapItem(sorted, totalAmount, low, done)
    ELSE LET mid == low + ((high - low) \div 2)
         IN  Only({MapBetween(sorted, totalAmount, mid + 1, high, lower) :
                       lower \in {MapBetween(sorted, totalAmount, low, mid,
                                             done)}})

\* sorted.map(...) with the running cumulativePercent
MapFrom(sorted, totalAmount, i, cumulativePercent, acc) ==
    MapBetween(sorted, totalAmount, i, Len(sorted),
               [cumulativePercent |-> cumulativePercent, items |-> acc]).items

\* Fault model: the shares are taken of the largest amount, not of the total
AnalyzeOverLargest(input) ==
    LET sorted == SortByAmountDesc(input)
    IN  MapFrom(sorted,
                IF Len(sorted) = 0 THEN NumZero ELSE sorted[1].amount,
                1, NumZero, <<>>)

analyzeABC(input) ==
    LET sorted      == SortByAmountDesc(input)
        totalAmount == SumAmounts(sorted)
    IN  MapFrom(sorted, totalAmount, 1, NumZero, <<>>)

\* Fault model: the amount of a group is assigned, not accumulated
LastAmountOnly(members) ==
    [count |-> Len(members),
     amount |-> IF Len(members) = 0 THEN NumZero
                ELSE members[Len(members)].amount]

\* groups[key] after the loop over the items: count++ and amount += of the
\* members of the group, in sequence order
GroupOf(members) ==
    [count |-> Len(members), amount |-> SumAmounts(members)]

SummaryEntry(category, group, totalCount, totalAmount) ==
    [category |-> category, count |-> group.count, amount |-> group.amount,
     percentCount |-> Percent(FromInt(group.count), FromInt(totalCount)),
     percentAmount |-> Percent(group.amount, totalAmount)]

\* Fault model: only the categories that have items get an entry
SummaryOfPresent(analyzedItems) ==
    LET totalAmount == SumAmounts(analyzedItems)
        totalCount  == Len(analyzedItems)
        Entry(c)    == SummaryEntry(c, GroupOf(SelectSeq(analyzedItems,
                                            LAMBDA it : it.abc = c)),
                                    totalCount, totalAmount)
    IN  SelectSeq(<<Entry("A"), Entry("B"), Entry("C")>>,
                  LAMBDA e : e.count > 0)

getABCSummary(analyzedItems) ==
    LET totalAmount == SumAmounts(analyzedItems)
        totalCount  == Len(analyzedItems)
        Entry(c)    == SummaryEntry(c, GroupOf(SelectSeq(analyzedItems,
                                            LAMBDA it : it.abc = c)),
                                    totalCount, totalAmount)
    IN  <<Entry("A"), Entry("B"), Entry("C")>>

getVENSummary(analyzedItems) ==
    LET totalAmount == SumAmounts(analyzedItems)
        totalCount  == Len(analyzedItems)
        Entry(c)    == SummaryEntry(c, GroupOf(SelectSeq(analyzedItems,
                                            LAMBDA it : it.ven = c)),
                                    totalCount, totalAmount)
    IN  <<Entry("V"), Entry("E"), Entry("N")>>

\* Fault model: every item is counted in the row of tier A
MatrixInFirstRow(analyzedItems) ==
    LET totalCount  == Len(analyzedItems)
        totalAmount == SumAmounts(analyzedItems)
        Cell(abc, ven) ==
            LET g == GroupOf(SelectSeq(analyzedItems,
                             LAMBDA it : abc = "A" /\ it.ven = ven))
            IN  CategoryStats(g.count, g.amount,
                              Percent(FromInt(g.count), FromInt(totalCount)),
                              Percent(g.amount, totalAmount))
    IN  [abc \in ABCCategory |-> [ven \in VENCategory |-> Cell(abc, ven)]]

\* Fault model: only the tiers and criticalities that have items get cells
SparseMatrix(analyzedItems) ==
    LET totalCount  == Len(analyzedItems)
        totalAmount == SumAmounts(analyzedItems)
        Of(abc)     == SelectSeq(analyzedItems, LAMBDA it : it.abc = abc)
        Cell(abc, ven) ==
            LET g == GroupOf(SelectSeq(Of(abc), LAMBDA it : it.ven = ven))
            IN  CategoryStats(g.count, g.amount,
                              Percent(FromInt(g.count), FromInt(totalCount)),
                              Percent(g.amount, totalAmount))
    IN  [abc \in {analyzedItems[i].abc : i \in 1..Len(analyzedItems)} |->
            [ven \in {Of(abc)[i].ven : i \in 1..Len(Of(abc))} |->
                Cell(abc, ven)]]

\* Fault model: the percentages of a cell are taken of the totals of its tier
MatrixPerRow(analyzedItems) ==
    LET Row(abc) ==
            LET groupItems  == SelectSeq(analyzedItems, LAMBDA it : it.abc = abc)
                Cell(ven) ==
                    LET g == GroupOf(SelectSeq(groupItems,
                                               LAMBDA it : it.ven = ven))
                    IN  CategoryStats(g.count, g.amount,
                            Percent(FromInt(g.count),
                                    FromInt(Len(groupItems))),
                            Percent(g.amount, SumAmounts(groupItems)))
            IN  [ven \in VENCategory |-> Cell(ven)]
    IN  [abc \in ABCCategory |-> Row(abc)]

getABCVENMatrix(analyzedItems) ==
    LET totalCount  == Len(analyzedItems)
        totalAmount == SumAmounts(analyzedItems)
        Cell(abc, ven) ==
            LET g == GroupOf(SelectSeq(analyzedItems,
                             LAMBDA it : it.abc = abc /\ it.ven = ven))
            IN  CategoryStats(g.count, g.amount,
                              Percent(FromInt(g.count), FromInt(totalCount)),
                              Percent(g.amount, totalAmount))
    IN  [abc \in ABCCategory |-> [ven \in VENCategory |-> Cell(abc, ven)]]

\* Fault model: the amounts of the items are not added to the cells
DistributionWithoutAmounts(analyzedItems) ==
    LET full == MatrixPerRow(analyzedItems)
    IN  [abc \in ABCCategory |->
            [ven \in VENCategory |->
                [full[abc][ven] EXCEPT !.amount = NumZero]]]

\* Fault model: the percentages are taken of the totals of all items
DistributionOverTotal(analyzedItems) == getABCVENMatrix(analyzedItems)

\* Fault model: the percentages of a tier are divided without the guards
DistributionUnguarded(analyzedItems) == MatrixPerRow(analyzedItems)

getVENDistributionByABC(analyzedItems) ==
    LET Row(abc) ==
            LET groupItems  == SelectSeq(analyzedItems, LAMBDA it : it.abc = abc)
                groupCount  == Len(groupItems)
                groupAmount == SumAmounts(groupItems)
                Cell(ven) ==
                    LET g == GroupOf(SelectSeq(groupItems,
                                               LAMBDA it : it.ven = ven))
                    IN  CategoryStats(g.count, g.amount,
                            IF groupCount > 0
                            THEN Percent(FromInt(g.count), FromInt(groupCount))
                            ELSE NumZero,
                            IF NumLt(NumZero, groupAmount)
                            THEN Percent(g.amount, groupAmount)
                            ELSE NumZero)
            IN  [ven \in VENCategory |-> Cell(ven)]
    IN  [abc \in ABCCategory |-> Row(abc)]

(***************************************************************************)
(* Errors.  The functions have no throw statement; what can raise is the   *)
(* access to a property of undefined, groups[item.abc].count++ and the     *)
(* like.  groups[key] is undefined for a key that the object literal       *)
(* neither has nor inherits: for a name of Object.prototype it is a        *)
(* function or an object, count++ and amount += set properties of that     *)
(* object, and nothing is raised (the item is then counted in no group).   *)
(* The module is strict code: count++ on null, on undefined or on a        *)
(* primitive value raises.  The array operations of analyzeABC (spread,    *)
(* sort, reduce with an initial value, map) raise for no array; the        *)
(* callbacks of sort and reduce read item.amount, which raises for an      *)
(* element that is null or undefined.  Array.prototype.sort hands no       *)
(* undefined element to its comparator: it puts them after the others.     *)
(***************************************************************************)
\* null as an element of an array
Null == [null |-> TRUE]

\* undefined as an element of an array
Undef == [undefined |-> TRUE]

\* item.amount is read of an element that is null or undefined
HasNullItem(seq) == \E i \in 1..Len(seq) : seq[i] \in {Null, Undef}

\* (a, b) => b.amount - a.amount and (sum, item) => sum + item.amount
analyzeABCRaises(input) == HasNullItem(input)

\* The names every object inherits from Object.prototype
ObjectPrototypeKeys ==
    {"constructor", "__defineGetter__", "__defineSetter__", "hasOwnProperty",
     "__lookupGetter__", "__lookupSetter__", "isPrototypeOf",
     "propertyIsEnumerable", "toString", "valueOf", "__proto__",
     "toLocaleString"}

\* The names at which every function has an object: the methods of
\* Function.prototype (length and name are primitive values, arguments and
\* caller raise when read)
FunctionKeys == {"apply", "bind", "call"}

\* The names at which the function Object has an object of its own
ObjectOwnKeys ==
    {"prototype", "assign", "create", "defineProperties", "defineProperty",
     "entries", "freeze", "fromEntries", "getOwnPropertyDescriptor",
     "getOwnPropertyDescriptors", "getOwnPropertyNames",
     "getOwnPropertySymbols", "getPrototypeOf", "hasOwn", "is",
     "isExtensible", "isFrozen", "isSealed", "keys", "preventExtensions",
     "seal", "setPrototypeOf", "values"}

\* The names at which a number has an object: the methods of
\* Number.prototype and what it inherits from Object.prototype
NumberKeys ==
    ObjectPrototypeKeys \cup {"toExponential", "toFixed", "toPrecision"}

\* object[key] is undefined, for an object literal with the keys own
Undefined(key, own) == key \notin (own \cup ObjectPrototypeKeys)

\* groups[item.abc] is undefined for an item
HasUnknownTier(seq) ==
    \E i \in 1..Len(seq) : Undefined(seq[i].abc, ABCCategory)

\* groups[item.ven] is undefined for an item
HasUnknownCriticality(seq) ==
    \E i \in 1..Len(seq) : Undefined(seq[i].ven, VENCategory)

\* matrix[abc][ven] is Object.prototype itself: count++ and amount += on it
\* give every object the inherited members count and amount, both NaN
IsObjectPrototype(abc, ven) ==
    \/ abc \in ABCCategory /\ ven = "__proto__"
    \/ abc = "constructor" /\ ven = "prototype"

\* Object.prototype has the members count and amount when the item at
\* position idx is reached: an earlier call of the process (before) or an
\* earlier item of the call wrote them
Polluted(seq, idx, before) ==
    before \/ \E j \in 1..(idx - 1) : IsObjectPrototype(seq[j].abc, seq[j].ven)

\* matrix[abc][ven] is undefined, null or a primitive value, or reading it
\* raises.  matrix["__proto__"] is Object.prototype, whose __proto__ is
\* null; matrix["constructor"] is the function Object; matrix[abc] for
\* another name of Object.prototype is a method of it; matrix["count"] and
\* matrix["amount"] are the number NaN once Object.prototype has them.
NoCell(abc, ven, polluted) ==
    IF abc \in ABCCategory THEN Undefined(ven, VENCategory)
    ELSE IF abc = "__proto__"
    THEN ven \notin (ObjectPrototypeKeys \ {"__proto__"})
    ELSE IF abc = "constructor"
    THEN ven \notin (ObjectPrototypeKeys \cup FunctionKeys \cup ObjectOwnKeys)
    ELSE IF abc \in ObjectPrototypeKeys
    THEN ven \notin (ObjectPrototypeKeys \cup FunctionKeys)
    ELSE IF polluted /\ abc \in {"count", "amount"}
    THEN ven \notin NumberKeys
    ELSE TRUE

\* sum + item.amount; groups[item.abc].count++
getABCSummaryRaises(analyzedItems) ==
    HasNullItem(analyzedItems) \/ HasUnknownTier(analyzedItems)

\* sum + item.amount; groups[item.ven].count++
getVENSummaryRaises(analyzedItems) ==
    HasNullItem(analyzedItems) \/ HasUnknownCriticality(analyzedItems)

\* sum + item.amount; matrix[item.abc][item.ven].count++.  polluted:
\* Object.prototype has the members count and amount when the call begins
getABCVENMatrixRaises(analyzedItems, polluted) ==
    \/ HasNullItem(analyzedItems)
    \/ \E i \in 1..Len(analyzedItems) :
           NoCell(analyzedItems[i].abc, analyzedItems[i].ven,
                  Polluted(analyzedItems, i, polluted))

\* item.abc; abcGroups[item.abc].push(item): only the arrays of A, B and C
\* have push; result[abc][item.ven].count++
getVENDistributionByABCRaises(analyzedItems) ==
    \/ HasNullItem(analyzedItems)
    \/ \E i \in 1..Len(analyzedItems) :
           analyzedItems[i].abc \notin ABCCategory
    \/ HasUnknownCriticality(analyzedItems)

(***************************************************************************)
(* The five functions on the heap.  An array or an object of the program   *)
(* is an object of the heap and is known by its reference, its index in    *)
(* the heap.  An array holds the references of its elements, an object     *)
(* literal whose members are objects holds their references by key, and a  *)
(* record holds primitive values.  site is the expression that made the    *)
(* object.  A call is at one statement of the function body and a step     *)
(* runs that statement: one round of a for-of loop over the items, or one  *)
(* method of Array (spread, sort, reduce, map), or one literal.            *)
(***************************************************************************)
\* null in the place of an object, and nothing where a call has no object
NoRef == 0
\* undefined in the place of an object
UndefRef == -2
\* The reference of Object.prototype
ObjectPrototype == 1
\* The reference of the array a caller passes
InputRef == 2
\* A function or a prototype object of the engine other than
\* Object.prototype: none of the five functions reads what is written to it
Builtin == -1

HeapObject(site, kind, value) == [site |-> site, kind |-> kind, value |-> value]

\* The heap of a caller that holds the array seq: Object.prototype, the
\* array and its items; polluted: Object.prototype has the members count
\* and amount
HeapOf(seq, polluted) ==
    LET live  == {i \in 1..Len(seq) : seq[i] \notin {Null, Undef}}
        ItemRef(i) ==
            IF i \in live
            THEN InputRef + Cardinality({j \in live : j <= i})
            ELSE IF seq[i] = Undef THEN UndefRef
            ELSE NoRef
    IN  <<HeapObject(<<"Object.prototype">>, "record", [polluted |-> polluted]),
          HeapObject(<<"caller", "array">>, "array",
                     Stored([i \in 1..Len(seq) |-> ItemRef(i)]))>>
            \o Stored([k \in 1..Cardinality(live) |->
                          HeapObject(<<"caller", "item">>, "record",
                              seq[CHOOSE i \in live :
                                      Cardinality({j \in live : j <= i}) = k])])

\* The value an object stands for: what the caller sees when it reads it
RECURSIVE Value(_, _)
Value(h, r) ==
    IF r = NoRef THEN Null
    ELSE IF r = UndefRef THEN Undef
    ELSE IF h[r].kind = "record" THEN h[r].value
    ELSE IF h[r].kind = "array"
    THEN Stored([k \in 1..Len(h[r].value) |-> Value(h, h[r].value[k])])
    ELSE [key \in DOMAIN h[r].value |-> Value(h, h[r].value[key])]

\* The objects that are reached from an object, itself included
RECURSIVE Reach(_, _)
Reach(h, r) ==
    IF r < 1 THEN {}
    ELSE IF h[r].kind = "record" THEN {r}
    ELSE {r} \cup UNION {Reach(h, h[r].value[k]) : k \in DOMAIN h[r].value}

\* Fault model: an array or object literal is evaluated once, and the
\* object it made is used again whenever the expression is reached
AllocatedOnce(h, site, kind, value) ==
    IF \E r \in 1..Len(h) : h[r].site = site
    THEN [heap |-> h, ref |-> CHOOSE r \in 1..Len(h) : h[r].site = site]
    ELSE [heap |-> Append(h, HeapObject(site, kind, value)), ref |-> Len(h) + 1]

\* An array or object literal is evaluated: a new object
Allocated(h, site, kind, value) ==
    [heap |-> Append(h, HeapObject(site, kind, value)), ref |-> Len(h) + 1]

\* One more literal is evaluated
AllocatedNext(before, site, kind, value) ==
    LET made == Allocated(before.heap, site, kind, value)
    IN  [heap |-> made.heap, refs |-> Append(before.refs, made.ref)]

\* One literal is evaluated for every value from low to high, in order.
\* The range is halved, and the lower half is evaluated before the upper
\* one, only to keep the evaluation shallow.
RECURSIVE AllocatedBetween(_, _, _, _, _, _)
AllocatedBetween(before, site, kind, values, low, high) ==
    IF low > high THEN before
    ELSE IF low = high THEN AllocatedNext(before, site, kind, values[low])
    ELSE LET mid == low + ((high - low) \div 2)
         IN  Only({AllocatedBetween(lower, site, kind, values, mid + 1, high) :
                       lower \in {AllocatedBetween(before, site, kind, values,
                                                   low, mid)}})

\* One literal is evaluated for every value, in order
AllocatedAll(h, site, kind, values) ==
    AllocatedBetween([heap |-> h, refs |-> <<>>], site, kind, values,
                     1, Len(values))

\* object.value = value
Write(h, r, value) == [h EXCEPT ![r] = [@ EXCEPT !.value = value]]

\* The items of an array of references
ItemsAt(h, refs) == Stored([k \in 1..Len(refs) |-> h[refs[k]].value])

\* Fault model: reduce without an initial value raises for an empty array
RaisesOnEmpty(refs) ==
    Len(refs) = 0 \/ \E k \in 1..Len(refs) : refs[k] \in {NoRef, UndefRef}

\* item.amount is read of every element: null and undefined have no members
HasNull(refs) == \E k \in 1..Len(refs) : refs[k] \in {NoRef, UndefRef}

\* The elements of an array that sort hands to its comparator, in order
Defined(refs) == SelectSeq(refs, LAMBDA r : r # UndefRef)

\* The undefined elements of an array, which sort puts at its end
Undefineds(refs) == SelectSeq(refs, LAMBDA r : r = UndefRef)

\* The array after sort: compared are its defined elements, two or more
Sorted(h, compared, rest) ==
    IF Len(compared) < 2 THEN compared \o rest
    ELSE Arranged(compared,
                  SortedIndexes(Order(ItemsAt(h, compared)), Len(compared)))
             \o rest

\* ['A', 'B', 'C'] and ['V', 'E', 'N']
ABCKeys == <<"A", "B", "C">>
VENKeys == <<"V", "E", "N">>

\* A call: the function, the array it is passed, the statement it is at,
\* its locals (the loop indexes i and j, the objects a and b, totalCount or
\* groupCount, totalAmount or groupAmount) and what it has returned;
\* changed: the caller has changed the result since
NewCall(fn, arg, first) ==
    [fn |-> fn, arg |-> arg, at |-> first, i |-> 0, j |-> 0,
     a |-> NoRef, b |-> NoRef, count |-> 0, total |-> NumZero,
     ret |-> NoRef, changed |-> FALSE]

\* The first statement of a function body
FirstStatement(fn) ==
    CASE fn = "analyzeABC" -> "spread"
      [] fn = "getVENDistributionByABC" -> "result"
      [] OTHER -> "reduce"

Over(c) == c.at \in {"returned", "raised"}

Do(h, c) == [heap |-> h, call |-> c]
Raised(h, c) == Do(h, [c EXCEPT !.at = "raised"])
Returned(h, c, ref) == Do(h, [c EXCEPT !.at = "returned", !.ret = ref])

\* The call returns a new array of new records, one for every value
ArrayOf(h, c, site, array, values) ==
    LET made   == AllocatedAll(h, site, "record", values)
        result == Allocated(made.heap, array, "array", made.refs)
    IN  Returned(result.heap, c, result.ref)

\* Fault model: const sorted = items
NotCopied(h, source, site) == [heap |-> h, ref |-> source]

\* [...items]: a new array with the elements of items
Spread(h, source, site) == Allocated(h, site, "array", h[source].value)

\* analyzeABC, statement by statement.  sort orders the array it is
\* applied to: it puts the undefined elements at the end and compares the
\* others when they are two or more; its comparator reads the amount of
\* both elements, and every element compared is read.
AnalyzeStep(h, c) ==
    CASE c.at = "spread" ->
             LET made == Spread(h, c.arg, <<"analyzeABC", "sorted">>)
             IN  Do(made.heap, [c EXCEPT !.a = made.ref, !.at = "sort"])
      [] c.at = "sort" ->
             LET refs == h[c.a].value
             IN  IF Len(Defined(refs)) >= 2 /\ HasNull(Defined(refs))
                 THEN Raised(h, c)
                 ELSE Do(Write(h, c.a,
                               Sorted(h, Defined(refs), Undefineds(refs))),
                         [c EXCEPT !.at = "reduce"])
      [] c.at = "reduce" ->
             LET refs == h[c.a].value
             IN  IF HasNull(refs) THEN Raised(h, c)
                 ELSE Do(h, [c EXCEPT !.total = SumAmounts(ItemsAt(h, refs)),
                                      !.at = "map"])
      [] c.at = "map" ->
             CHOOSE returned \in
                 {ArrayOf(h, c, <<"analyzeABC", "item">>,
                          <<"analyzeABC", "result">>, classified) :
                      classified \in {MapFrom(ItemsAt(h, h[c.a].value),
                                              c.total, 1, NumZero, <<>>)}} :
                 TRUE

\* { count: 0, amount: 0 }
EmptyGroup == [count |-> 0, amount |-> NumZero]

\* { count: 0, amount: 0, percentCount: 0, percentAmount: 0 }
EmptyStats == CategoryStats(0, NumZero, NumZero, NumZero)

\* object[key] for an object literal that has the key or inherits it
MemberAt(h, object, key) ==
    IF key \in DOMAIN h[object].value THEN h[object].value[key]
    ELSE IF key = "__proto__" THEN ObjectPrototype
    ELSE Builtin

\* Fault model: the amount added up so far is written to the item as well
CountedInItem(h, target, item) ==
    IF target = ObjectPrototype
    THEN Write(h, ObjectPrototype, [polluted |-> TRUE])
    ELSE IF target = Builtin THEN h
    ELSE LET group == h[target].value
             sum   == NumAdd(group.amount, h[item].value.amount)
         IN  Write(Write(h, target,
                         [group EXCEPT !.count = @ + 1, !.amount = sum]),
                   item, [h[item].value EXCEPT !.amount = sum])

\* target.count++; target.amount += item.amount.  On Object.prototype the
\* two give every object the inherited members count and amount.
Counted(h, target, item) ==
    IF target = ObjectPrototype
    THEN Write(h, ObjectPrototype, [polluted |-> TRUE])
    ELSE IF target = Builtin THEN h
    ELSE LET group == h[target].value
         IN  Write(h, target,
                   [group EXCEPT !.count = @ + 1,
                                 !.amount = NumAdd(@, h[item].value.amount)])

\* getABCSummary and getVENSummary, statement by statement; keys are the
\* categories and field is the member of the item that is grouped by
SummaryStep(h, c, keys, field) ==
    CASE c.at = "reduce" ->
             LET refs == h[c.arg].value
             IN  IF HasNull(refs) THEN Raised(h, c)
                 ELSE Do(h, [c EXCEPT !.total = SumAmounts(ItemsAt(h, refs)),
                                      !.count = Len(refs),
                                      !.at = "groups"])
      [] c.at = "groups" ->
             LET first  == Allocated(h, <<c.fn, "groups", keys[1]>>,
                                     "record", EmptyGroup)
                 second == Allocated(first.heap, <<c.fn, "groups", keys[2]>>,
                                     "record", EmptyGroup)
                 third  == Allocated(second.heap, <<c.fn, "groups", keys[3]>>,
                                     "record", EmptyGroup)
                 groups == Allocated(third.heap, <<c.fn, "groups">>, "object",
                                     (keys[1] :> first.ref)
                                         @@ (keys[2] :> second.ref)
                                         @@ (keys[3] :> third.ref))
             IN  Do(groups.heap,
                    [c EXCEPT !.a = groups.ref, !.i = 1, !.at = "loop"])
      [] c.at = "loop" ->
             LET refs == h[c.arg].value
             IN  IF c.i > Len(refs) THEN Do(h, [c EXCEPT !.at = "map"])
                 ELSE IF refs[c.i] \in {NoRef, UndefRef} THEN Raised(h, c)
                 ELSE LET key == h[refs[c.i]].value[field]
                      IN  IF Undefined(key, {keys[k] : k \in 1..Len(keys)})
                          THEN Raised(h, c)
                          ELSE Do(Counted(h, MemberAt(h, c.a, key), refs[c.i]),
                                  [c EXCEPT !.i = @ + 1])
      [] c.at = "map" ->
             CHOOSE returned \in
                 {ArrayOf(h, c, <<c.fn, "entry">>, <<c.fn, "result">>, entries) :
                      entries \in
                          {Stored([k \in 1..Len(keys) |->
                                      SummaryEntry(keys[k],
                                                   h[h[c.a].value[keys[k]]].value,
                                                   c.count, c.total)])}} :
                 TRUE

\* An object with an object for every tier, which has a cell for every
\* criticality: the loops that fill matrix, and the literal of result
Table(h, fn) ==
    LET cells == AllocatedAll(h, <<fn, "cell">>, "record",
                              Stored([k \in 1..9 |-> EmptyStats]))
        Row(a) == (VENKeys[1] :> cells.refs[(3 * (a - 1)) + 1])
                      @@ (VENKeys[2] :> cells.refs[(3 * (a - 1)) + 2])
                      @@ (VENKeys[3] :> cells.refs[(3 * (a - 1)) + 3])
        rows  == AllocatedAll(cells.heap, <<fn, "row">>, "object",
                              <<Row(1), Row(2), Row(3)>>)
    IN  Allocated(rows.heap, <<fn, "table">>, "object",
                  (ABCKeys[1] :> rows.refs[1]) @@ (ABCKeys[2] :> rows.refs[2])
                      @@ (ABCKeys[3] :> rows.refs[3]))

\* Fault model: every item is counted in the row of tier A
CellOfFirstRow(h, table, abc, ven) ==
    IF abc \in ABCCategory /\ ven \in VENCategory
    THEN h[h[table].value["A"]].value[ven]
    ELSE IF IsObjectPrototype(abc, ven) THEN ObjectPrototype
    ELSE Builtin

\* matrix[abc][ven], where it is an object
CellAt(h, table, abc, ven) ==
    IF abc \in ABCCategory /\ ven \in VENCategory
    THEN h[h[table].value[abc]].value[ven]
    ELSE IF IsObjectPrototype(abc, ven) THEN ObjectPrototype
    ELSE Builtin

\* The cells of some rows of a table
CellsOf(h, table, tiers) ==
    {h[h[table].value[abc]].value[ven] : abc \in tiers, ven \in VENCategory}

\* percentCount and percentAmount of cells are assigned: shares has the
\* new value of every such cell
WithShares(h, shares) ==
    Stored([r \in 1..Len(h) |->
               IF r \in DOMAIN shares THEN [h[r] EXCEPT !.value = shares[r]]
               ELSE h[r]])

\* getABCVENMatrix, statement by statement
MatrixStep(h, c) ==
    CASE c.at = "reduce" ->
             LET refs == h[c.arg].value
             IN  IF HasNull(refs) THEN Raised(h, c)
                 ELSE Do(h, [c EXCEPT !.count = Len(refs),
                                      !.total = SumAmounts(ItemsAt(h, refs)),
                                      !.at = "matrix"])
      [] c.at = "matrix" ->
             LET made == Table(h, c.fn)
             IN  Do(made.heap, [c EXCEPT !.a = made.ref, !.i = 1, !.at = "loop"])
      [] c.at = "loop" ->
             LET refs == h[c.arg].value
             IN  IF c.i > Len(refs) THEN Do(h, [c EXCEPT !.at = "percent"])
                 ELSE IF refs[c.i] \in {NoRef, UndefRef} THEN Raised(h, c)
                 ELSE LET item == h[refs[c.i]].value
                      IN  IF NoCell(item.abc, item.ven,
                                    h[ObjectPrototype].value.polluted)
                          THEN Raised(h, c)
                          ELSE Do(Counted(h, CellAt(h, c.a, item.abc, item.ven),
                                          refs[c.i]),
                                  [c EXCEPT !.i = @ + 1])
      [] c.at = "percent" ->
             LET Share(cell) ==
                     CategoryStats(cell.count, cell.amount,
                                   Percent(FromInt(cell.count), FromInt(c.count)),
                                   Percent(cell.amount, c.total))
             IN  Returned(WithShares(h, [r \in CellsOf(h, c.a, ABCCategory) |->
                                            Share(h[r].value)]),
                          c, c.a)

\* getVENDistributionByABC, statement by statement: a is result, b is
\* abcGroups and j is the tier of the outer loop
DistributionStep(h, c) ==
    CASE c.at = "result" ->
             LET made == Table(h, c.fn)
             IN  Do(made.heap, [c EXCEPT !.a = made.ref, !.at = "groups"])
      [] c.at = "groups" ->
             LET arrays == AllocatedAll(h, <<c.fn, "abcGroups", "array">>,
                                        "array", <<<<>>, <<>>, <<>>>>)
                 groups == Allocated(arrays.heap, <<c.fn, "abcGroups">>, "object",
                                     (ABCKeys[1] :> arrays.refs[1])
                                         @@ (ABCKeys[2] :> arrays.refs[2])
                                         @@ (ABCKeys[3] :> arrays.refs[3]))
             IN  Do(groups.heap,
                    [c EXCEPT !.b = groups.ref, !.i = 1, !.at = "push"])
      [] c.at = "push" ->
             LET refs == h[c.arg].value
             IN  IF c.i > Len(refs)
                 THEN Do(h, [c EXCEPT !.j = 1, !.at = "tier"])
                 ELSE IF refs[c.i] \in {NoRef, UndefRef} THEN Raised(h, c)
                 ELSE LET abc == h[refs[c.i]].value.abc
                      IN  IF abc \notin ABCCategory THEN Raised(h, c)
                          ELSE LET array == h[c.b].value[abc]
                               IN  Do(Write(h, array,
                                            Append(h[array].value, refs[c.i])),
                                      [c EXCEPT !.i = @ + 1])
      [] c.at = "tier" ->
             LET groupItems == h[h[c.b].value[ABCKeys[c.j]]].value
             IN  Do(h, [c EXCEPT !.count = Len(groupItems),
                                 !.total = SumAmounts(ItemsAt(h, groupItems)),
                                 !.i = 1, !.at = "count"])
      [] c.at = "count" ->
             LET groupItems == h[h[c.b].value[ABCKeys[c.j]]].value
             IN  IF c.i > Len(groupItems) THEN Do(h, [c EXCEPT !.at = "percent"])
                 ELSE LET ven == h[groupItems[c.i]].value.ven
                      IN  IF Undefined(ven, VENCategory) THEN Raised(h, c)
                          ELSE Do(Counted(h,
                                          MemberAt(h, h[c.a].value[ABCKeys[c.j]],
                                                   ven),
                                          groupItems[c.i]),
                                  [c EXCEPT !.i = @ + 1])
      [] c.at = "percent" ->
             LET Share(cell) ==
                     CategoryStats(cell.count, cell.amount,
                                   IF c.count > 0
                                   THEN Percent(FromInt(cell.count),
                                                FromInt(c.count))
                                   ELSE NumZero,
                                   IF NumLt(NumZero, c.total)
                                   THEN Percent(cell.amount, c.total)
                                   ELSE NumZero)
             IN  Do(WithShares(h, [r \in CellsOf(h, c.a, {ABCKeys[c.j]}) |->
                                      Share(h[r].value)]),
                    IF c.j = Len(ABCKeys)
                    THEN [c EXCEPT !.at = "returned", !.ret = c.a]
                    ELSE [c EXCEPT !.j = @ + 1, !.at = "tier"])

\* The statement a call is at is run
Stepped(h, c) ==
    CASE c.fn = "analyzeABC" -> AnalyzeStep(h, c)
      [] c.fn = "getABCSummary" -> SummaryStep(h, c, ABCKeys, "abc")
      [] c.fn = "getVENSummary" -> SummaryStep(h, c, VENKeys, "ven")
      [] c.fn = "getABCVENMatrix" -> MatrixStep(h, c)
      [] c.fn = "getVENDistributionByABC" -> DistributionStep(h, c)

\* A call is run to its end
RECURSIVE Run(_, _)
Run(h, c) ==
    IF Over(c) THEN Do(h, c)
    ELSE LET next == Stepped(h, c) IN Run(next.heap, next.call)

\* The result of a function that is run alone: a process that has made no
\* other call holds the sequence
RunAlone(fn, seq) ==
    LET done == Run(HeapOf(seq, FALSE), NewCall(fn, InputRef, FirstStatement(fn)))
    IN  Value(done.heap, done.call.ret)

(***************************************************************************)
(* The parser (src/parser.ts).  A string is the sequence of its UTF-16     *)
(* code units.  The numbers parseInt and parseFloat return are binary64    *)
(* values, so the code and the quantity of a parsed item are binary64 too. *)
(***************************************************************************)
LineFeed == 10      \* '\n'
QuoteChar == 34     \* '"'
PlusChar == 43      \* '+'
CommaChar == 44     \* ','
MinusChar == 45     \* '-'
DotChar == 46       \* '.'
Digits == 48..57    \* '0' to '9'
ExponentChars == {69, 101}                              \* 'E', 'e'
InfinityLiteral == <<73, 110, 102, 105, 110, 105, 116, 121>>
\* ',,Всего:'
TotalPrefix == <<44, 44, 1042, 1089, 1077, 1075, 1086, 58>>
\* ['V', 'E', 'N']
VENLetters == {<<86>>, <<69>>, <<78>>}
\* for (let i = 4; ...
FirstDataLine == 4
\* parsed.length < 6
MinFields == 6

\* WhiteSpace and LineTerminator of ECMAScript: what trim, parseInt and
\* parseFloat strip
WhiteSpace ==
    {9, 10, 11, 12, 13, 32, 160, 5760, 8232, 8233, 8239, 8287, 12288, 65279}
        \cup (8192..8202)

RECURSIVE trimStart(_)
trimStart(str) ==
    IF Len(str) > 0 /\ Head(str) \in WhiteSpace
    THEN trimStart(Tail(str))
    ELSE str

RECURSIVE trimEnd(_)
trimEnd(str) ==
    IF Len(str) > 0 /\ str[Len(str)] \in WhiteSpace
    THEN trimEnd(SubSeq(str, 1, Len(str) - 1))
    ELSE str

trim(str) == trimEnd(trimStart(str))

startsWith(str, prefix) ==
    /\ Len(str) >= Len(prefix)
    /\ SubSeq(str, 1, Len(prefix)) = prefix

\* String.prototype.toUpperCase changes 1273 code units (the case mappings
\* of Unicode 17, which the engine's ICU carries).  1171 of them become one
\* other code unit: <<first, last, step, delta>> stands for the code units
\* first, first + step, ... last, each of which becomes itself plus delta.
UpperCaseRanges ==
    {<<97, 122, 1, -32>>, <<181, 181, 1, 743>>, <<224, 246, 1, -32>>,
     <<248, 254, 1, -32>>, <<255, 255, 1, 121>>, <<257, 303, 2, -1>>,
     <<305, 305, 1, -232>>, <<307, 311, 2, -1>>, <<314, 328, 2, -1>>,
     <<331, 375, 2, -1>>, <<378, 382, 2, -1>>, <<383, 383, 1, -300>>,
     <<384, 384, 1, 195>>, <<387, 389, 2, -1>>, <<392, 392, 1, -1>>,
     <<396, 396, 1, -1>>, <<402, 402, 1, -1>>, <<405, 405, 1, 97>>,
     <<409, 409, 1, -1>>, <<410, 410, 1, 163>>, <<411, 411, 1, 42561>>,
     <<414, 414, 1, 130>>, <<417, 421, 2, -1>>, <<424, 424, 1, -1>>,
     <<429, 429, 1, -1>>, <<432, 432, 1, -1>>, <<436, 438, 2, -1>>,
     <<441, 441, 1, -1>>, <<445, 445, 1, -1>>, <<447, 447, 1, 56>>,
     <<453, 453, 1, -1>>, <<454, 454, 1, -2>>, <<456, 456, 1, -1>>,
     <<457, 457, 1, -2>>, <<459, 459, 1, -1>>, <<460, 460, 1, -2>>,
     <<462, 476, 2, -1>>, <<477, 477, 1, -79>>, <<479, 495, 2, -1>>,
     <<498, 498, 1, -1>>, <<499, 499, 1, -2>>, <<501, 501, 1, -1>>,
     <<505, 543, 2, -1>>, <<547, 563, 2, -1>>, <<572, 572, 1, -1>>,
     <<575, 576, 1, 10815>>, <<578, 578, 1, -1>>, <<583, 591, 2, -1>>,
     <<592, 592, 1, 10783>>, <<593, 593, 1, 10780>>, <<594, 594, 1, 10782>>,
     <<595, 595, 1, -210>>, <<596, 596, 1, -206>>, <<598, 599, 1, -205>>,
     <<601, 601, 1, -202>>, <<603, 603, 1, -203>>, <<604, 604, 1, 42319>>,
     <<608, 608, 1, -205>>, <<609, 609, 1, 42315>>, <<611, 611, 1, -207>>,
     <<612, 612, 1, 42343>>, <<613, 613, 1, 42280>>, <<614, 614, 1, 42308>>,
     <<616, 616, 1, -209>>, <<617, 617, 1, -211>>, <<618, 618, 1, 42308>>,
     <<619, 619, 1, 10743>>, <<620, 620, 1, 42305>>, <<623, 623, 1, -211>>,
     <<625, 625, 1, 10749>>, <<626, 626, 1, -213>>, <<629, 629, 1, -214>>,
     <<637, 637, 1, 10727>>, <<640, 640, 1, -218>>, <<642, 642, 1, 42307>>,
     <<643, 643, 1, -218>>, <<647, 647, 1, 42282>>, <<648, 648, 1, -218>>,
     <<649, 649, 1, -69>>, <<650, 651, 1, -217>>, <<652, 652, 1, -71>>,
     <<658, 658, 1, -219>>, <<669, 669, 1, 42261>>, <<670, 670, 1, 42258>>,
     <<837, 837, 1, 84>>, <<881, 883, 2, -1>>, <<887, 887, 1, -1>>,
     <<891, 893, 1, 130>>, <<940, 940, 1, -38>>, <<941, 943, 1, -37>>,
     <<945, 961, 1, -32>>, <<962, 962, 1, -31>>, <<963, 971, 1, -32>>,
     <<972, 972, 1, -64>>, <<973, 974, 1, -63>>, <<976, 976, 1, -62>>,
     <<977, 977, 1, -57>>, <<981, 981, 1, -47>>, <<982, 982, 1, -54>>,
     <<983, 983, 1, -8>>, <<985, 1007, 2, -1>>, <<1008, 1008, 1, -86>>,
     <<1009, 1009, 1, -80>>, <<1010, 1010, 1, 7>>, <<1011, 1011, 1, -116>>,
     <<1013, 1013, 1, -96>>, <<1016, 1016, 1, -1>>, <<1019, 1019, 1, -1>>,
     <<1072, 1103, 1, -32>>, <<1104, 1119, 1, -80>>, <<1121, 1153, 2, -1>>,
     <<1163, 1215, 2, -1>>, <<1218, 1230, 2, -1>>, <<1231, 1231, 1, -15>>,
     <<1233, 1327, 2, -1>>, <<1377, 1414, 1, -48>>, <<4304, 4346, 1, 3008>>,
     <<4349, 4351, 1, 3008>>, <<5112, 5117, 1, -8>>,
     <<7296, 7296, 1, -6254>>, <<7297, 7297, 1, -6253>>,
     <<7298, 7298, 1, -6244>>, <<7299, 7300, 1, -6242>>,
     <<7301, 7301, 1, -6243>>, <<7302, 7302, 1, -6236>>,
     <<7303, 7303, 1, -6181>>, <<7304, 7304, 1, 35266>>,
     <<7306, 7306, 1, -1>>, <<7545, 7545, 1, 35332>>,
     <<7549, 7549, 1, 3814>>, <<7566, 7566, 1, 35384>>,
     <<7681, 7829, 2, -1>>, <<7835, 7835, 1, -59>>, <<7841, 7935, 2, -1>>,
     <<7936, 7943, 1, 8>>, <<7952, 7957, 1, 8>>, <<7968, 7975, 1, 8>>,
     <<7984, 7991, 1, 8>>, <<8000, 8005, 1, 8>>, <<8017, 8023, 2, 8>>,
     <<8032, 8039, 1, 8>>, <<8048, 8049, 1, 74>>, <<8050, 8053, 1, 86>>,
     <<8054, 8055, 1, 100>>, <<8056, 8057, 1, 128>>, <<8058, 8059, 1, 112>>,
     <<8060, 8061, 1, 126>>, <<8112, 8113, 1, 8>>, <<8126, 8126, 1, -7205>>,
     <<8144, 8145, 1, 8>>, <<8160, 8161, 1, 8>>, <<8165, 8165, 1, 7>>,
     <<8526, 8526, 1, -28>>, <<8560, 8575, 1, -16>>, <<8580, 8580, 1, -1>>,
     <<9424, 9449, 1, -26>>, <<11312, 11359, 1, -48>>,
     <<11361, 11361, 1, -1>>, <<11365, 11365, 1, -10795>>,
     <<11366, 11366, 1, -10792>>, <<11368, 11372, 2, -1>>,
     <<11379, 11379, 1, -1>>, <<11382, 11382, 1, -1>>,
     <<11393, 11491, 2, -1>>, <<11500, 11502, 2, -1>>,
     <<11507, 11507, 1, -1>>, <<11520, 11557, 1, -7264>>,
     <<11559, 11559, 1, -7264>>, <<11565, 11565, 1, -7264>>,
     <<42561, 42605, 2, -1>>, <<42625, 42651, 2, -1>>,
     <<42787, 42799, 2, -1>>, <<42803, 42863, 2, -1>>,
     <<42874, 42876, 2, -1>>, <<42879, 42887, 2, -1>>,
     <<42892, 42892, 1, -1>>, <<42897, 42899, 2, -1>>,
     <<42900, 42900, 1, 48>>, <<42903, 42921, 2, -1>>,
     <<42933, 42947, 2, -1>>, <<42952, 42954, 2, -1>>,
     <<42957, 42971, 2, -1>>, <<42998, 42998, 1, -1>>,
     <<43859, 43859, 1, -928>>, <<43888, 43967, 1, -38864>>,
     <<65345, 65370, 1, -32>>}

\* The other 102 become two or three code units (SpecialCasing)
UpperCaseSpecial ==
    {<<223, <<83, 83>>>>, <<329, <<700, 78>>>>, <<496, <<74, 780>>>>,
     <<912, <<921, 776, 769>>>>, <<944, <<933, 776, 769>>>>,
     <<1415, <<1333, 1362>>>>, <<7830, <<72, 817>>>>, <<7831, <<84, 776>>>>,
     <<7832, <<87, 778>>>>, <<7833, <<89, 778>>>>, <<7834, <<65, 702>>>>,
     <<8016, <<933, 787>>>>, <<8018, <<933, 787, 768>>>>,
     <<8020, <<933, 787, 769>>>>, <<8022, <<933, 787, 834>>>>,
     <<8064, <<7944, 921>>>>, <<8065, <<7945, 921>>>>,
     <<8066, <<7946, 921>>>>, <<8067, <<7947, 921>>>>,
     <<8068, <<7948, 921>>>>, <<8069, <<7949, 921>>>>,
     <<8070, <<7950, 921>>>>, <<8071, <<7951, 921>>>>,
     <<8072, <<7944, 921>>>>, <<8073, <<7945, 921>>>>,
     <<8074, <<7946, 921>>>>, <<8075, <<7947, 921>>>>,
     <<8076, <<7948, 921>>>>, <<8077, <<7949, 921>>>>,
     <<8078, <<7950, 921>>>>, <<8079, <<7951, 921>>>>,
     <<8080, <<7976, 921>>>>, <<8081, <<7977, 921>>>>,
     <<8082, <<7978, 921>>>>, <<8083, <<7979, 921>>>>,
     <<8084, <<7980, 921>>>>, <<8085, <<7981, 921>>>>,
     <<8086, <<7982, 921>>>>, <<8087, <<7983, 921>>>>,
     <<8088, <<7976, 921>>>>, <<8089, <<7977, 921>>>>,
     <<8090, <<7978, 921>>>>, <<8091, <<7979, 921>>>>,
     <<8092, <<7980, 921>>>>, <<8093, <<7981, 921>>>>,
     <<8094, <<7982, 921>>>>, <<8095, <<7983, 921>>>>,
     <<8096, <<8040, 921>>>>, <<8097, <<8041, 921>>>>,
     <<8098, <<8042, 921>>>>, <<8099, <<8043, 921>>>>,
     <<8100, <<8044, 921>>>>, <<8101, <<8045, 921>>>>,
     <<8102, <<8046, 921>>>>, <<8103, <<8047, 921>>>>,
     <<8104, <<8040, 921>>>>, <<8105, <<8041, 921>>>>,
     <<8106, <<8042, 921>>>>, <<8107, <<8043, 921>>>>,
     <<8108, <<8044, 921>>>>, <<8109, <<8045, 921>>>>,
     <<8110, <<8046, 921>>>>, <<8111, <<8047, 921>>>>,
     <<8114, <<8122, 921>>>>, <<8115, <<913, 921>>>>, <<8116, <<902, 921>>>>,
     <<8118, <<913, 834>>>>, <<8119, <<913, 834, 921>>>>,
     <<8124, <<913, 921>>>>, <<8130, <<8138, 921>>>>, <<8131, <<919, 921>>>>,
     <<8132, <<905, 921>>>>, <<8134, <<919, 834>>>>,
     <<8135, <<919, 834, 921>>>>, <<8140, <<919, 921>>>>,
     <<8146, <<921, 776, 768>>>>, <<8147, <<921, 776, 769>>>>,
     <<8150, <<921, 834>>>>, <<8151, <<921, 776, 834>>>>,
     <<8162, <<933, 776, 768>>>>, <<8163, <<933, 776, 769>>>>,
     <<8164, <<929, 787>>>>, <<8166, <<933, 834>>>>,
     <<8167, <<933, 776, 834>>>>, <<8178, <<8186, 921>>>>,
     <<8179, <<937, 921>>>>, <<8180, <<911, 921>>>>, <<8182, <<937, 834>>>>,
     <<8183, <<937, 834, 921>>>>, <<8188, <<937, 921>>>>,
     <<64256, <<70, 70>>>>, <<64257, <<70, 73>>>>, <<64258, <<70, 76>>>>,
     <<64259, <<70, 70, 73>>>>, <<64260, <<70, 70, 76>>>>,
     <<64261, <<83, 84>>>>, <<64262, <<83, 84>>>>, <<64275, <<1348, 1350>>>>,
     <<64276, <<1348, 1333>>>>, <<64277, <<1348, 1339>>>>,
     <<64278, <<1358, 1350>>>>, <<64279, <<1348, 1341>>>>}

\* The code points above 65535 with an upper case, <<first, last, delta>>
UpperCaseSupplementary ==
    {<<66600, 66639, -40>>, <<66776, 66811, -40>>, <<66967, 66977, -39>>,
     <<66979, 66993, -39>>, <<66995, 67001, -39>>, <<67003, 67004, -39>>,
     <<68800, 68850, -64>>, <<68976, 68997, -32>>, <<71872, 71903, -32>>,
     <<93792, 93823, -32>>, <<93883, 93907, -27>>, <<125218, 125251, -34>>}

\* toUpperCase of a string of the one code unit c
UpperCaseOf(c) ==
    IF c < 97 THEN <<c>>
    ELSE IF \E s \in UpperCaseSpecial : s[1] = c
    THEN (CHOOSE s \in UpperCaseSpecial : s[1] = c)[2]
    ELSE IF \E r \in UpperCaseRanges :
                c >= r[1] /\ c <= r[2] /\ (c - r[1]) % r[3] = 0
    THEN <<c + (CHOOSE r \in UpperCaseRanges :
                    c >= r[1] /\ c <= r[2] /\ (c - r[1]) % r[3] = 0)[4]>>
    ELSE <<c>>

\* The code point of a surrogate pair, and the pair of a code point
CodePointOf(high, low) == 65536 + (high - 55296) * 1024 + (low - 56320)

SurrogatesOf(point) ==
    <<55296 + ((point - 65536) \div 1024), 56320 + ((point - 65536) % 1024)>>

\* toUpperCase of a string of one surrogate pair
UpperCaseOfPair(high, low) ==
    IF \E r \in UpperCaseSupplementary :
           CodePointOf(high, low) >= r[1] /\ CodePointOf(high, low) <= r[2]
    THEN SurrogatesOf(
             CodePointOf(high, low)
             + (CHOOSE r \in UpperCaseSupplementary :
                    /\ CodePointOf(high, low) >= r[1]
                    /\ CodePointOf(high, low) <= r[2])[3])
    ELSE <<high, low>>

\* toUpperCase maps code point by code point; a surrogate without its
\* partner stays as it is
RECURSIVE UpperCaseFrom(_, _)
UpperCaseFrom(str, i) ==
    IF i > Len(str) THEN <<>>
    ELSE IF /\ str[i] \in 55296..56319
            /\ i < Len(str)
            /\ str[i + 1] \in 56320..57343
    THEN UpperCaseOfPair(str[i], str[i + 1]) \o UpperCaseFrom(str, i + 2)
    ELSE UpperCaseOf(str[i]) \o UpperCaseFrom(str, i + 1)

toUpperCase(str) == UpperCaseFrom(str, 1)

\* content.split('\n'): the pieces between the line feeds, k line feeds
\* giving k + 1 pieces
split(str) ==
    LET breaks   == {i \in 1..Len(str) : str[i] = LineFeed}
        Break(k) == CHOOSE i \in breaks :
                        Cardinality({j \in breaks : j <= i}) = k
        Start(k) == IF k = 1 THEN 1 ELSE Break(k - 1) + 1
        End(k)   == IF k = Cardinality(breaks) + 1
                    THEN Len(str)
                    ELSE Break(k) - 1
    IN  [k \in 1..(Cardinality(breaks) + 1) |->
            SubSeq(str, Start(k), End(k))]

\* str.replace(',', '.'): the first comma only
replace(str) ==
    IF \E i \in 1..Len(str) : str[i] = CommaChar
    THEN LET first == CHOOSE i \in 1..Len(str) :
                          /\ str[i] = CommaChar
                          /\ \A j \in 1..(i - 1) : str[j] # CommaChar
         IN  [str EXCEPT ![first] = DotChar]
    ELSE str

\* Number of decimal digits at the start of a string
RECURSIVE DigitCount(_)
DigitCount(str) ==
    IF Len(str) > 0 /\ Head(str) \in Digits
    THEN 1 + DigitCount(Tail(str))
    ELSE 0

\* Value of a string of decimal digits
RECURSIVE DigitsValue(_)
DigitsValue(str) ==
    IF Len(str) = 0 THEN 0
    ELSE 10 * DigitsValue(SubSeq(str, 1, Len(str) - 1))
             + (str[Len(str)] - 48)

HasSign(str) == Len(str) > 0 /\ Head(str) \in {PlusChar, MinusChar}
Signed(str, x) ==
    IF Len(str) > 0 /\ Head(str) = MinusChar THEN NumNeg(x) ELSE x

\* parseInt(str, 10): leading white space, a sign, then the longest run of
\* digits; NaN without a digit
parseInt(str) ==
    LET s    == trimStart(str)
        body == IF HasSign(s) THEN Tail(s) ELSE s
        n    == DigitCount(body)
    IN  IF n = 0 THEN NaN
        ELSE Signed(s, FromInt(DigitsValue(SubSeq(body, 1, n))))

isNaN(x) == x.cls = "nan"

\* The value of the literal at the start of s, of which body is what follows
\* the sign, whole and fraction count the digits before and after the point,
\* mantissa is the value of these digits and expBody is what follows e or E
LiteralValue(s, body, whole, fraction, mantissa, expBody) ==
    LET expDigs  == IF HasSign(expBody) THEN Tail(expBody) ELSE expBody
        expCount == DigitCount(expDigs)
        expValue == DigitsValue(SubSeq(expDigs, 1, expCount))
        exponent == IF Len(expBody) > 0 /\ Head(expBody) = MinusChar
                    THEN -expValue
                    ELSE expValue
        scale    == exponent - fraction
    IN  IF whole = 0 /\ fraction = 0
        THEN IF startsWith(body, InfinityLiteral)
             THEN Signed(s, Infinity(1))
             ELSE NaN
        ELSE IF scale >= 0
             THEN Signed(s, FromInt(mantissa * 10^scale))
             ELSE Signed(s, NumDiv(FromInt(mantissa), FromInt(10^(-scale))))

\* parseFloat(str): leading white space, then the longest prefix that is a
\* decimal literal (sign, digits, fraction, exponent) or Infinity; NaN if
\* there is none.  The value is the literal's value rounded to nearest,
\* which the division or product of two exact integers gives.
parseFloat(str) ==
    LET s        == trimStart(str)
        body     == IF HasSign(s) THEN Tail(s) ELSE s
        whole    == DigitCount(body)
        rest     == SubSeq(body, whole + 1, Len(body))
        fraction == IF Len(rest) > 0 /\ Head(rest) = DotChar
                    THEN DigitCount(Tail(rest))
                    ELSE 0
        mantissa == DigitsValue(SubSeq(body, 1, whole)
                                \o SubSeq(rest, 2, fraction + 1))
        after    == IF Len(rest) > 0 /\ Head(rest) = DotChar
                    THEN SubSeq(rest, fraction + 2, Len(rest))
                    ELSE rest
        expBody  == IF Len(after) > 0 /\ Head(after) \in ExponentChars
                    THEN Tail(after)
                    ELSE <<>>
    IN  LiteralValue(s, body, whole, fraction, mantissa, expBody)

\* x || 0: NaN and both zeros are falsy
OrZero(x) == IF x.cls \in {"nan", "zero"} THEN NumZero ELSE x

RECURSIVE ScanLine(_, _, _, _, _)
ScanLine(line, i, current, inQuotes, result) ==
    IF i > Len(line) THEN Append(result, current)
    ELSE IF line[i] = QuoteChar
         THEN IF inQuotes /\ i < Len(line) /\ line[i + 1] = QuoteChar
              THEN ScanLine(line, i + 2, Append(current, QuoteChar),
                            inQuotes, result)
              ELSE ScanLine(line, i + 1, current, ~inQuotes, result)
         ELSE IF line[i] = CommaChar /\ ~inQuotes
              THEN ScanLine(line, i + 1, <<>>, inQuotes,
                            Append(result, current))
              ELSE ScanLine(line, i + 1, Append(current, line[i]),
                            inQuotes, result)

\* Fault model: every comma separates, double quotes are kept as they are
RECURSIVE SplitAtEveryComma(_)
SplitAtEveryComma(line) ==
    IF \E i \in 1..Len(line) : line[i] = CommaChar
    THEN LET first == CHOOSE i \in 1..Len(line) :
                          /\ line[i] = CommaChar
                          /\ \A j \in 1..(i - 1) : line[j] # CommaChar
         IN  <<SubSeq(line, 1, first - 1)>>
                 \o SplitAtEveryComma(SubSeq(line, first + 1, Len(line)))
    ELSE <<line>>

parseCSVLine(line) == ScanLine(line, 1, <<>>, FALSE, <<>>)

includes(str, char) == \E i \in 1..Len(str) : str[i] = char

\* str.replace(/"/g, '""')
RECURSIVE replaceAll(_)
replaceAll(str) ==
    IF Len(str) = 0 THEN <<>>
    ELSE IF Head(str) = QuoteChar
         THEN <<QuoteChar, QuoteChar>> \o replaceAll(Tail(str))
         ELSE <<Head(str)>> \o replaceAll(Tail(str))

\* Fault model: the quotes of the value are not doubled
QuotedAsIs(str) ==
    IF includes(str, CommaChar) \/ includes(str, QuoteChar)
           \/ includes(str, LineFeed)
    THEN <<QuoteChar>> \o str \o <<QuoteChar>>
    ELSE str

\* escapeCSV of the converter (scripts/convert-excel.ts), for a string
escapeCSV(str) ==
    IF includes(str, CommaChar) \/ includes(str, QuoteChar)
           \/ includes(str, LineFeed)
    THEN <<QuoteChar>> \o replaceAll(str) \o <<QuoteChar>>
    ELSE str

\* as VENCategory, for a string that is one of the three letters
AsVENCategory(str) ==
    CASE str = <<86>> -> "V"
      [] str = <<69>> -> "E"
      [] str = <<78>> -> "N"

\* Fault model: the name of a row is not looked at
RejectedUnlessNamed(code, name, ven) ==
    isNaN(code) \/ ven \notin VENLetters

\* isNaN(code) || !name || !['V', 'E', 'N'].includes(ven)
Rejected(code, name, ven) ==
    isNaN(code) \/ Len(name) = 0 \/ ven \notin VENLetters

\* The body of the loop for lines[i] from parseCSVLine on, parsed being its
\* result
PushParsed(items, parsed) ==
    LET code   == parseInt(parsed[1])
        name   == parsed[2]
        unit   == parsed[3]
        quantity == OrZero(parseFloat(replace(parsed[4])))
        amount == OrZero(parseFloat(replace(parsed[5])))
        ven    == toUpperCase(trim(parsed[6]))
    IN  IF Len(parsed) < MinFields THEN items
        ELSE IF Rejected(code, name, ven) THEN items
        ELSE Append(items,
                    [code |-> code, name |-> name, unit |-> unit,
                     quantity |-> quantity, amount |-> amount,
                     ven |-> AsVENCategory(ven)])

\* The body of the loop for lines[i]: the items with the row's item pushed,
\* or the items as they are after continue
PushRow(items, rawLine) ==
    LET line == trim(rawLine)
    IN  IF Len(line) = 0 \/ startsWith(line, TotalPrefix) THEN items
        ELSE PushParsed(items, parseCSVLine(line))

RECURSIVE ParseFrom(_, _, _)
ParseFrom(lines, i, items) ==
    IF i < Len(lines)
    THEN ParseFrom(lines, i + 1, PushRow(items, lines[i + 1]))
    ELSE items

\* parseCSV of a file that holds the text content
parseCSV(content) == ParseFrom(split(content), FirstDataLine, <<>>)

(***************************************************************************)
(* Bounds and inputs.                                                      *)
(***************************************************************************)
\* Longest input array of analyzeABC
MaxItems == 3
\* Longest classified sequence handed directly to an aggregation function
MaxClassified == 2

\* Amounts of the raw items: -1, 0, 0.1, 0.3 and 1.6.  Of 1.6, 0.3 and 0.1
\* the first is exactly 80% and the first two are exactly 95% of the total.
Amounts ==
    {FromInt(-1), NumZero, Decimal(1, 10), Decimal(3, 10), Decimal(16, 10)}

\* Amounts of the directly built classified items: 0, 0.1 and 0.2
ClassifiedAmounts == {NumZero, Decimal(1, 10), Decimal(2, 10)}

\* Arrays of raw items; the code of an item is its position in the input
Inputs ==
    UNION {
        {[i \in 1..n |-> DrugItem(i, am[i], vn[i])] :
            am \in [1..n -> Amounts], vn \in [1..n -> VENCategory]} :
        n \in 0..MaxItems}

\* Classified sequences as the callers of the aggregation functions build
\* them: any tier on any item (percentOfTotal and cumulativePercent are not
\* read by the aggregation functions)
ClassifiedInputs ==
    UNION {
        {[i \in 1..n |-> AnalyzedItem(DrugItem(i, am[i], vn[i]),
                                      NumZero, NumZero, ab[i])] :
            am \in [1..n -> ClassifiedAmounts], vn \in [1..n -> VENCategory],
            ab \in [1..n -> ABCCategory]} :
        n \in 0..MaxClassified}

\* Longest batch of positive amounts
MaxBatch == 4

\* Amounts of the batches: 0.1, 0.4 and 1.4.  Of 1.4, 0.4, 0.1 and 0.1 the
\* first two are 90% and the first three 95% of the total.
BatchAmounts == {Decimal(1, 10), Decimal(4, 10), Decimal(14, 10)}

\* Batches of items with positive amounts
BatchInputs ==
    UNION {
        {[i \in 1..n |-> DrugItem(i, am[i], "V")] :
            am \in [1..n -> BatchAmounts]} :
        n \in 1..MaxBatch}

\* Data lines of an input file, after its four header lines
MaxLines == 2

RECURSIVE Join(_, _)
Join(strs, separator) ==
    IF Len(strs) = 0 THEN <<>>
    ELSE IF Len(strs) = 1 THEN strs[1]
    ELSE strs[1] \o <<separator>> \o Join(Tail(strs), separator)

\* First fields: '1', '2a', 'a', '' and '-0'
CodeFields == {<<49>>, <<50, 97>>, <<97>>, <<>>, <<45, 48>>}

\* Sixth fields: 'V', 'e', ' n ', 'X', '', 'VE' and '"N"'
VENFields ==
    {<<86>>, <<101>>, <<32, 110, 32>>, <<88>>, <<>>, <<86, 69>>,
     <<34, 78, 34>>}

\* Second fields: '', '"a,b"', '""' and ' '
NameFields == {<<>>, <<34, 97, 44, 98, 34>>, <<34, 34>>, <<32>>}

\* code,a,u,1,2,ven
Row(code, name, ven) ==
    Join(<<code, name, <<117>>, <<49>>, <<50>>, ven>>, CommaChar)

\* Lines of other shapes
OtherLines ==
    {<<>>,                                                   \* ''
     <<32, 13>>,                                             \* ' \r'
     <<32, 49, 44, 97, 44, 117, 44, 49, 44, 50, 44, 86, 13>>, \* ' 1,a,u,1,2,V\r'
     <<49, 44, 97, 44, 117, 44, 49, 44, 86>>,                \* '1,a,u,1,V'
     <<49, 44, 34, 97, 44, 117, 34, 44, 49, 44, 50, 44, 86>>, \* '1,"a,u",1,2,V'
     <<49, 44, 97, 44, 117, 44, 49, 44, 50, 44, 86, 44, 120>>, \* '1,a,u,1,2,V,x'
     <<49, 44, 97, 44, 117, 44, 49, 44, 50, 44, 44, 86>>,    \* '1,a,u,1,2,,V'
     TotalPrefix \o <<44, 49, 44, 50, 44, 86>>,              \* ',,Всего:,1,2,V'
     <<32>> \o TotalPrefix \o <<44, 49, 44, 50, 44, 86>>,    \* ' ,,Всего:,1,2,V'
     \* '3,a,u,"1,5","0,25",N'
     <<51, 44, 97, 44, 117, 44, 34, 49, 44, 53, 34, 44,
       34, 48, 44, 50, 53, 34, 44, 78>>,
     <<51, 44, 97, 44, 117, 44, 120, 44, 45, 48, 44, 78>>,   \* '3,a,u,x,-0,N'
     \* '3,a,u,1e2,.5,E'
     <<51, 44, 97, 44, 117, 44, 49, 101, 50, 44, 46, 53, 44, 69>>}

DataLines ==
    {Row(code, <<97>>, ven) : code \in CodeFields, ven \in VENFields}
        \cup {Row(<<49>>, name, <<86>>) : name \in NameFields}
        \cup OtherLines

\* The first four lines of a file: four rows that are well formed, or four
\* empty lines
Headers ==
    {[i \in 1..FirstDataLine |-> Row(<<57>>, <<104>>, <<86>>)],
     [i \in 1..FirstDataLine |-> <<>>]}

\* The files: a header and up to MaxLines data lines, or fewer than four
\* lines, all of them well-formed rows
FileContents ==
    {Join(header \o data, LineFeed) :
        header \in Headers,
        data \in UNION {[1..n -> DataLines] : n \in 0..MaxLines}}
        \cup {Join([i \in 1..n |-> Row(<<57>>, <<104>>, <<86>>)], LineFeed) :
                 n \in 0..(FirstDataLine - 1)}

\* Longest line handed to parseCSVLine
MaxLineLength == 5
\* Longest list of fields and longest field that is escaped and split again
MaxRowFields == 2
MaxFieldLength == 3

\* 'a', 'b', ',' and '"'
LineChars == {97, 98, CommaChar, QuoteChar}
\* 'a', ',' and '"'
FieldChars == {97, CommaChar, QuoteChar}

LineTexts == UNION {[1..n -> LineChars] : n \in 0..MaxLineLength}

FieldTexts == UNION {[1..n -> FieldChars] : n \in 0..MaxFieldLength}

FieldLists == UNION {[1..n -> FieldTexts] : n \in 0..MaxRowFields}

(***************************************************************************)
(* The state machine.                                                      *)
(***************************************************************************)
\* No result yet: every result of an aggregation function has entries
None == <<>>

VARIABLES
    caller,         \* "raw": it holds raw items, "classified": a classified
                    \* sequence, "main": it holds an input file
    pc,             \* "start", "analyzed" or "done"; "error" after a raise;
                    \* of main: "file", "parsed", then "loaded" or "exit"
    items,          \* the caller's input array of analyzeABC
    analyzedItems,  \* the classified sequence
    summary,        \* result of getABCSummary, or None
    venSummary,     \* result of getVENSummary, or None
    matrix,         \* result of getABCVENMatrix, or None
    venDistribution, \* result of getVENDistributionByABC, or None
    heap,           \* the result objects allocated so far, by reference
    calls,          \* the calls of a caller that keeps every result
    content,        \* the text of the input file
    fields,         \* the cells of a row that is written as a line
    line,           \* a line of delimited text
    parsed,         \* the result of parseCSVLine, or None
    args,           \* process.argv.slice(2) of a command-line run
    exitCode,       \* <<>> while the process runs, then <<its exit code>>
    trace,          \* the functions main has called, in order
    files           \* the report files written

lineVars == <<fields, line, parsed>>

mainVars == <<args, exitCode, trace, files>>

vars == <<caller, pc, items, analyzedItems, summary, venSummary, matrix,
          venDistribution, heap, calls, content, fields, line, parsed,
          args, exitCode, trace, files>>

\* A caller holds raw items (main after parseCSV, or a test with createItem):
\* nothing is computed yet
InitRaw ==
    /\ caller = "raw"
    /\ pc = "start"
    /\ items \in Inputs
    /\ analyzedItems = <<>>

\* A caller holds a classified sequence it has built itself (analyzer.test.ts)
InitClassified ==
    /\ caller = "classified"
    /\ pc = "analyzed"
    /\ items = <<>>
    /\ analyzedItems \in ClassifiedInputs

Init ==
    /\ InitRaw \/ InitClassified
    /\ summary = None
    /\ venSummary = None
    /\ matrix = None
    /\ venDistribution = None
    /\ heap = <<>>
    /\ calls = <<>>
    /\ content = <<>>
    /\ fields = <<>>
    /\ line = <<>>
    /\ parsed = None
    /\ args = <<>>
    /\ exitCode = <<>>
    /\ trace = <<>>
    /\ files = {}

\* const analyzedItems = analyzeABC(items)
AnalyzeABC ==
    /\ pc = "start"
    /\ IF analyzeABCRaises(items)
       THEN /\ pc' = "error"
            /\ UNCHANGED <<items, analyzedItems>>
       ELSE /\ analyzedItems' = analyzeABC(items)
            /\ UNCHANGED items
            /\ pc' = "analyzed"
    /\ UNCHANGED <<caller, summary, venSummary, matrix, venDistribution,
                   heap, calls, content>>
    /\ UNCHANGED lineVars
    /\ UNCHANGED mainVars

\* The aggregation functions are applied to the classified sequence: a
\* caller applies one of the four (the tests), or, as main does,
\* getABCSummary, getVENSummary and getVENDistributionByABC one after the
\* other; pc is "done" when the caller holds a result
GetABCSummary ==
    /\ pc = "analyzed"
    /\ IF getABCSummaryRaises(analyzedItems)
       THEN pc' = "error" /\ UNCHANGED summary
       ELSE pc' = "done" /\ summary' = getABCSummary(analyzedItems)
    /\ UNCHANGED <<caller, items, analyzedItems, venSummary, matrix, venDistribution,
                   heap, calls, content>>
    /\ UNCHANGED lineVars
    /\ UNCHANGED mainVars

GetVENSummary ==
    /\ pc \in {"analyzed", "done"}
    /\ venSummary = None
    /\ matrix = None
    /\ venDistribution = None
    /\ IF getVENSummaryRaises(analyzedItems)
       THEN pc' = "error" /\ UNCHANGED venSummary
       ELSE pc' = "done" /\ venSummary' = getVENSummary(analyzedItems)
    /\ UNCHANGED <<caller, items, analyzedItems, summary, matrix, venDistribution,
                   heap, calls, content>>
    /\ UNCHANGED lineVars
    /\ UNCHANGED mainVars

GetABCVENMatrix ==
    /\ pc = "analyzed"
    /\ IF getABCVENMatrixRaises(analyzedItems, FALSE)
       THEN pc' = "error" /\ UNCHANGED matrix
       ELSE pc' = "done" /\ matrix' = getABCVENMatrix(analyzedItems)
    /\ UNCHANGED <<caller, items, analyzedItems, summary, venSummary, venDistribution,
                   heap, calls, content>>
    /\ UNCHANGED lineVars
    /\ UNCHANGED mainVars

GetVENDistributionByABC ==
    /\ pc \in {"analyzed", "done"}
    /\ venDistribution = None
    /\ matrix = None
    /\ (summary = None) = (venSummary = None)
    /\ IF getVENDistributionByABCRaises(analyzedItems)
       THEN pc' = "error" /\ UNCHANGED venDistribution
       ELSE pc' = "done" /\ venDistribution' = getVENDistributionByABC(analyzedItems)
    /\ UNCHANGED <<caller, items, analyzedItems, summary, venSummary, matrix,
                   heap, calls, content>>
    /\ UNCHANGED lineVars
    /\ UNCHANGED mainVars

Next ==
    \/ AnalyzeABC
    \/ GetABCSummary
    \/ GetVENSummary
    \/ GetABCVENMatrix
    \/ GetVENDistributionByABC

Spec == Init /\ [][Next]_vars

\* A caller holds a batch of items with positive amounts
InitBatch ==
    /\ caller = "raw"
    /\ pc = "start"
    /\ items \in BatchInputs
    /\ analyzedItems = <<>>
    /\ summary = None
    /\ venSummary = None
    /\ matrix = None
    /\ venDistribution = None
    /\ heap = <<>>
    /\ calls = <<>>
    /\ content = <<>>
    /\ fields = <<>>
    /\ line = <<>>
    /\ parsed = None
    /\ args = <<>>
    /\ exitCode = <<>>
    /\ trace = <<>>
    /\ files = {}

SpecBatch == InitBatch /\ [][Next]_vars

(***************************************************************************)
(* A caller with a long array: the sort cuts an array of 64 items or more  *)
(* into runs and merges them.                                              *)
(***************************************************************************)
\* Shortest array that has more than one run
MergedLength == 64
\* Longest array of such a caller
MaxLongItems == 65

\* The shapes of the long arrays.  The runs are the stretches in which no
\* amount is larger than the one before (kept), or every amount is (such a
\* run is reversed).
\*   "saw":      32, 31, ..., 1, 32, 31, ...: runs that need no insertion,
\*               every amount of a run is in the next run too
\*   "rising":   1, 2, 3, ...: one run, reversed
\*   "equal":    every amount is 0.3
\*   "mixed":    -1 to 3 in no order: runs filled up by insertion
\*   "steps":    99 down to 68, then 167 down: the second run goes first
\*   "woven":    even amounts falling, then the odd amounts between them
\*   "blocks":   a run whose last 24 items come after the whole next run
\*   "infinite": some amounts are Infinity or -Infinity, whose differences
\*               are NaN
LongShapes ==
    {"saw", "rising", "equal", "mixed", "steps", "woven", "blocks",
     "infinite"}

LongAmount(shape, i) ==
    CASE shape = "saw" -> FromInt(32 - ((i - 1) % 32))
      [] shape = "rising" -> FromInt(i)
      [] shape = "equal" -> Decimal(3, 10)
      [] shape = "mixed" -> FromInt((((i * i * 7) + (3 * i)) % 5) - 1)
      [] shape = "steps" -> FromInt(IF i <= 32 THEN 100 - i ELSE 200 - i)
      [] shape = "woven" ->
             FromInt(IF i <= 32 THEN 2 * (40 - i) ELSE (2 * (72 - i)) + 1)
      [] shape = "blocks" ->
             FromInt(IF i <= 8 THEN 101 - i
                     ELSE IF i <= 32 THEN 58 - i ELSE 125 - i)
      [] shape = "infinite" ->
             IF i % 7 = 0 THEN Infinity(1)
             ELSE IF i % 11 = 0 THEN Infinity(-1)
             ELSE FromInt(i % 3)

\* The criticalities of a long array: V, E, N, V, ...
LongVen(i) == CASE i % 3 = 1 -> "V" [] i % 3 = 2 -> "E" [] i % 3 = 0 -> "N"

\* Long arrays of raw items; the code of an item is its position
LongInputs ==
    {Stored([i \in 1..n |-> DrugItem(i, LongAmount(shape, i), LongVen(i))]) :
        shape \in LongShapes, n \in MergedLength..MaxLongItems}

\* A caller holds raw items, few or many
InitSort ==
    /\ caller = "raw"
    /\ pc = "start"
    /\ items \in Inputs \cup LongInputs
    /\ analyzedItems = <<>>
    /\ summary = None
    /\ venSummary = None
    /\ matrix = None
    /\ venDistribution = None
    /\ heap = <<>>
    /\ calls = <<>>
    /\ content = <<>>
    /\ fields = <<>>
    /\ line = <<>>
    /\ parsed = None
    /\ args = <<>>
    /\ exitCode = <<>>
    /\ trace = <<>>
    /\ files = {}

SpecSort == InitSort /\ [][AnalyzeABC]_vars

(***************************************************************************)
(* Callers whose arrays and results are objects of the heap.  A caller     *)
(* begins a call and the call is run step by step; the caller goes on      *)
(* when the call is over.  A call of an aggregation function that raises   *)
(* is over and the caller, which catches the error, may make another call  *)
(* in the same process; without the result of analyzeABC it makes none.    *)
(* items and analyzedItems are the values the caller has built its array   *)
(* from, or has read from the result of analyzeABC.                        *)
(***************************************************************************)
\* Calls of the aggregation functions in one run
MaxCalls == 2
\* Longest classified sequence of such a caller
MaxShared == 2

AggregationFunctions ==
    {"getABCSummary", "getVENSummary", "getABCVENMatrix",
     "getVENDistributionByABC"}

\* Classified items of amount 0.1 with any tier and criticality
SharedInputs ==
    UNION {
        {[i \in 1..n |-> AnalyzedItem(DrugItem(i, Decimal(1, 10), vn[i]),
                                      NumZero, NumZero, ab[i])] :
            vn \in [1..n -> VENCategory], ab \in [1..n -> ABCCategory]} :
        n \in 0..MaxShared}

\* A call is being run
Running == Len(calls) > 0 /\ ~Over(calls[Len(calls)])

\* The classified sequence the caller holds: the one it has built, or the
\* result of analyzeABC
SequenceRef == IF caller = "raw" THEN calls[1].ret ELSE InputRef

\* Only the heap, the calls and the caller's position change
OnlyCalls ==
    /\ UNCHANGED <<caller, items, summary, venSummary, matrix,
                   venDistribution, content>>
    /\ UNCHANGED lineVars
    /\ UNCHANGED mainVars

\* analyzeABC(items) is called
CallAnalyzeABC ==
    /\ caller = "raw"
    /\ pc = "start"
    /\ calls = <<>>
    /\ calls' = <<NewCall("analyzeABC", InputRef, FirstStatement("analyzeABC"))>>
    /\ UNCHANGED <<pc, analyzedItems, heap>>
    /\ OnlyCalls

\* One of the aggregation functions is called with the classified sequence
Call ==
    /\ pc = "analyzed"
    /\ ~Running
    /\ Cardinality({k \in 1..Len(calls) : calls[k].fn \in AggregationFunctions})
           < MaxCalls
    /\ \E fn \in AggregationFunctions :
           calls' = Append(calls, NewCall(fn, SequenceRef, FirstStatement(fn)))
    /\ UNCHANGED <<pc, analyzedItems, heap>>
    /\ OnlyCalls

\* The call that is being run runs the statement it is at; when analyzeABC
\* returns the caller has the classified sequence
Step ==
    /\ Running
    /\ \E next \in {Stepped(heap, calls[Len(calls)])} :
           /\ heap' = next.heap
           /\ calls' = [calls EXCEPT ![Len(calls)] = next.call]
           /\ IF next.call.fn = "analyzeABC" /\ next.call.at = "returned"
              THEN /\ pc' = "analyzed"
                   /\ analyzedItems' = Value(next.heap, next.call.ret)
              ELSE IF next.call.fn = "analyzeABC" /\ next.call.at = "raised"
              THEN pc' = "error" /\ UNCHANGED analyzedItems
              ELSE UNCHANGED <<pc, analyzedItems>>
    /\ OnlyCalls

\* The caller changes a result it holds: it assigns to the amount of a
\* record of the result, or takes the last element off an array of it
ChangeResult ==
    /\ ~Running
    /\ \A k \in 1..Len(calls) : ~calls[k].changed
    /\ \E k \in 1..Len(calls) :
           /\ calls[k].at = "returned"
           /\ \E r \in Reach(heap, calls[k].ret) :
                  /\ \/ heap[r].kind = "record"
                     \/ heap[r].kind = "array" /\ Len(heap[r].value) > 0
                  /\ heap' = Write(heap, r,
                                   IF heap[r].kind = "record"
                                   THEN [heap[r].value EXCEPT !.amount = NaN]
                                   ELSE SubSeq(heap[r].value, 1,
                                               Len(heap[r].value) - 1))
           /\ calls' = [calls EXCEPT ![k].changed = TRUE]
    /\ UNCHANGED <<pc, analyzedItems>>
    /\ OnlyCalls

\* What no caller of this section uses
NoFile ==
    /\ summary = None
    /\ venSummary = None
    /\ matrix = None
    /\ venDistribution = None
    /\ content = <<>>
    /\ fields = <<>>
    /\ line = <<>>
    /\ parsed = None
    /\ args = <<>>
    /\ exitCode = <<>>
    /\ trace = <<>>
    /\ files = {}

\* A caller that applies the aggregation functions several times, in any
\* order, to one classified sequence and keeps every result
InitCalls ==
    /\ caller = "classified"
    /\ pc = "analyzed"
    /\ items = <<>>
    /\ analyzedItems \in SharedInputs
    /\ heap = HeapOf(analyzedItems, FALSE)
    /\ calls = <<>>
    /\ NoFile

NextCalls ==
    \/ Call
    \/ Step
    \/ ChangeResult

SpecCalls == InitCalls /\ [][NextCalls]_vars

\* A caller that applies analyzeABC to its array of raw items, few or many
InitCopy ==
    /\ caller = "raw"
    /\ pc = "start"
    /\ items \in Inputs \cup LongInputs
    /\ analyzedItems = <<>>
    /\ heap = HeapOf(items, FALSE)
    /\ calls = <<>>
    /\ NoFile

NextCopy ==
    \/ CallAnalyzeABC
    \/ Step

SpecCopy == InitCopy /\ [][NextCopy]_vars

(***************************************************************************)
(* Callers with any input.  The types of the items are checked when the    *)
(* program is compiled and not when it runs: an element can be null, and   *)
(* the tier and the criticality of a classified item can be any string.    *)
(* The process may have written count and amount to Object.prototype       *)
(* before.                                                                  *)
(***************************************************************************)
\* Raw items with every amount, the criticality by position
OddInputs ==
    UNION {
        {[i \in 1..n |-> DrugItem(i, am[i], VENKeys[((i - 1) % 3) + 1])] :
            am \in [1..n -> Amounts]} :
        n \in 0..MaxItems}

\* Arrays of raw items in which an element may be null or undefined
NullInputs ==
    UNION {[1..n -> {Null, Undef, DrugItem(1, Decimal(1, 10), "V")}] :
               n \in 1..MaxItems}

\* Tiers and criticalities of the items of a classified sequence: the
\* categories, names of Object.prototype and of other objects of the
\* engine, and names that nothing has
FaultKeys ==
    {<<"A", "V">>, <<"C", "N">>, <<"A", "__proto__">>, <<"__proto__", "V">>,
     <<"constructor", "prototype">>, <<"count", "toFixed">>,
     <<"count", "__proto__">>, <<"toString", "valueOf">>, <<"D", "V">>,
     <<"A", "X">>}

FaultItems ==
    {Null, Undef} \cup {AnalyzedItem(DrugItem(1, Decimal(1, 10), key[2]),
                              NumZero, NumZero, key[1]) : key \in FaultKeys}

FaultInputs == UNION {[1..n -> FaultItems] : n \in 0..MaxShared}

InitFaults ==
    /\ \/ /\ caller = "raw"
          /\ pc = "start"
          /\ items \in OddInputs \cup NullInputs
          /\ analyzedItems = <<>>
          /\ \E polluted \in BOOLEAN : heap = HeapOf(items, polluted)
       \/ /\ caller = "classified"
          /\ pc = "analyzed"
          /\ items = <<>>
          /\ analyzedItems \in FaultInputs
          /\ \E polluted \in BOOLEAN : heap = HeapOf(analyzedItems, polluted)
    /\ calls = <<>>
    /\ NoFile

NextFaults ==
    \/ CallAnalyzeABC
    \/ Call
    \/ Step

\* A call that has begun is run on, for nothing else runs in the process:
\* weak fairness of Step, WF_vars(Step), in which what enables a step is
\* written out (a call is being run, and its step changes the call)
FairStep == []<>~Running \/ []<><<Step>>_vars

SpecFaults == InitFaults /\ [][NextFaults]_vars /\ FairStep

(***************************************************************************)
(* main from the input file to the loaded items.                           *)
(***************************************************************************)
\* The path of the input file, and a path at which there is no file
InputPath == "input.csv"
MissingPath == "missing.csv"

\* Fault model: main goes on whatever parseCSV returned
NeverEmpty(loaded) == FALSE

\* items.length === 0
NothingLoaded(loaded) == Len(loaded) = 0

InitFile ==
    /\ caller = "main"
    /\ pc = "file"
    /\ content \in FileContents
    /\ fields = <<>>
    /\ line = <<>>
    /\ parsed = None
    /\ args = <<InputPath>>
    /\ exitCode = <<>>
    /\ trace = <<>>
    /\ files = {}
    /\ items = <<>>
    /\ analyzedItems = <<>>
    /\ summary = None
    /\ venSummary = None
    /\ matrix = None
    /\ venDistribution = None
    /\ heap = <<>>
    /\ calls = <<>>

\* const items = parseCSV(inputPath)
\* fs.readFileSync raises when there is no file at the path, and the
\* exception, which main does not catch, ends the process with code 1
ParseCSV ==
    /\ pc = "file"
    /\ trace' = Append(trace, "parseCSV")
    /\ IF args = <<MissingPath>>
       THEN /\ pc' = "exit"
            /\ exitCode' = <<1>>
            /\ UNCHANGED items
       ELSE /\ items' = parseCSV(content)
            /\ pc' = "parsed"
            /\ UNCHANGED exitCode
    /\ UNCHANGED <<caller, analyzedItems, summary, venSummary, matrix,
                   venDistribution, heap, calls, content>>
    /\ UNCHANGED lineVars
    /\ UNCHANGED <<args, files>>

\* if (items.length === 0) { ...; process.exit(1) }
CheckLoaded ==
    /\ pc = "parsed"
    /\ IF NothingLoaded(items)
       THEN pc' = "exit" /\ exitCode' = <<1>>
       ELSE pc' = "loaded" /\ UNCHANGED exitCode
    /\ UNCHANGED <<caller, items, analyzedItems, summary, venSummary, matrix,
                   venDistribution, heap, calls, content>>
    /\ UNCHANGED lineVars
    /\ UNCHANGED <<args, trace, files>>

NextFile ==
    \/ ParseCSV
    \/ CheckLoaded

SpecFile == InitFile /\ [][NextFile]_vars

(***************************************************************************)
(* The command-line run (main of src/index.ts) from the arguments to the   *)
(* console summary.  A report writer is the write of its file; an          *)
(* exception that main does not catch ends the process with code 1.        *)
(***************************************************************************)
\* The files of the two report writers
CSVReportFile == "abc_ven.csv"
TextReportFile == "report.txt"

InitMain ==
    /\ caller = "main"
    /\ pc = "args"
    /\ \/ (args = <<>> /\ content = <<>>)
       \/ (args = <<MissingPath>> /\ content = <<>>)
       \/ (args = <<InputPath>> /\ content \in FileContents)
    /\ exitCode = <<>>
    /\ trace = <<>>
    /\ files = {}
    /\ fields = <<>>
    /\ line = <<>>
    /\ parsed = None
    /\ items = <<>>
    /\ analyzedItems = <<>>
    /\ summary = None
    /\ venSummary = None
    /\ matrix = None
    /\ venDistribution = None
    /\ heap = <<>>
    /\ calls = <<>>

\* if (args.length === 0) { ...; process.exit(1) }
CheckArgs ==
    /\ pc = "args"
    /\ IF Len(args) = 0
       THEN pc' = "exit" /\ exitCode' = <<1>>
       ELSE pc' = "file" /\ UNCHANGED exitCode
    /\ UNCHANGED <<caller, items, analyzedItems, summary, venSummary, matrix,
                   venDistribution, heap, calls, content>>
    /\ UNCHANGED lineVars
    /\ UNCHANGED <<args, trace, files>>

\* const analyzedItems = analyzeABC(items)
RunAnalyzeABC ==
    /\ pc = "loaded"
    /\ trace' = Append(trace, "analyzeABC")
    /\ IF analyzeABCRaises(items)
       THEN /\ pc' = "exit"
            /\ exitCode' = <<1>>
            /\ UNCHANGED <<items, analyzedItems>>
       ELSE /\ analyzedItems' = analyzeABC(items)
            /\ UNCHANGED items
            /\ pc' = "classified"
            /\ UNCHANGED exitCode
    /\ UNCHANGED <<caller, summary, venSummary, matrix, venDistribution,
                   heap, calls, content>>
    /\ UNCHANGED lineVars
    /\ UNCHANGED <<args, files>>

\* const summary = getABCSummary(analyzedItems)
RunABCSummary ==
    /\ pc = "classified"
    /\ trace' = Append(trace, "getABCSummary")
    /\ IF getABCSummaryRaises(analyzedItems)
       THEN pc' = "exit" /\ exitCode' = <<1>> /\ UNCHANGED summary
       ELSE /\ summary' = getABCSummary(analyzedItems)
            /\ pc' = "summary"
            /\ UNCHANGED exitCode
    /\ UNCHANGED <<caller, items, analyzedItems, venSummary, matrix,
                   venDistribution, heap, calls, content>>
    /\ UNCHANGED lineVars
    /\ UNCHANGED <<args, files>>

\* const venSummary = getVENSummary(analyzedItems)
RunVENSummary ==
    /\ pc = "summary"
    /\ trace' = Append(trace, "getVENSummary")
    /\ IF getVENSummaryRaises(analyzedItems)
       THEN pc' = "exit" /\ exitCode' = <<1>> /\ UNCHANGED venSummary
       ELSE /\ venSummary' = getVENSummary(analyzedItems)
            /\ pc' = "venSummary"
            /\ UNCHANGED exitCode
    /\ UNCHANGED <<caller, items, analyzedItems, summary, matrix,
                   venDistribution, heap, calls, content>>
    /\ UNCHANGED lineVars
    /\ UNCHANGED <<args, files>>

\* const venDistribution = getVENDistributionByABC(analyzedItems)
RunVENDistributionByABC ==
    /\ pc = "venSummary"
    /\ trace' = Append(trace, "getVENDistributionByABC")
    /\ IF getVENDistributionByABCRaises(analyzedItems)
       THEN pc' = "exit" /\ exitCode' = <<1>> /\ UNCHANGED venDistribution
       ELSE /\ venDistribution' = getVENDistributionByABC(analyzedItems)
            /\ pc' = "summarised"
            /\ UNCHANGED exitCode
    /\ UNCHANGED <<caller, items, analyzedItems, summary, venSummary, matrix,
                   heap, calls, content>>
    /\ UNCHANGED lineVars
    /\ UNCHANGED <<args, files>>

\* generateCSVReport(analyzedItems, csvOutputPath)
GenerateCSVReport ==
    /\ pc = "summarised"
    /\ trace' = Append(trace, "generateCSVReport")
    /\ files' = files \cup {CSVReportFile}
    /\ pc' = "csv"
    /\ UNCHANGED <<caller, items, analyzedItems, summary, venSummary, matrix,
                   venDistribution, heap, calls, content>>
    /\ UNCHANGED lineVars
    /\ UNCHANGED <<args, exitCode>>

\* generateTextReport(analyzedItems, summary, venSummary, venDistribution,
\*                    textOutputPath).  The repository holds two modules
\* ./reporter.  The one whose third parameter is venSummary writes the
\* file.  The one of src/reporter.ts takes a matrix as the third parameter
\* and reads matrix[abc][ven] for abc = 'A' in generateConsoleSummary before
\* it writes anything: venSummary is an array, venSummary['A'] is undefined,
\* the TypeError is not caught and ends the process with code 1.
GenerateTextReport ==
    /\ pc = "csv"
    /\ trace' = Append(trace, "generateTextReport")
    /\ \/ /\ files' = files \cup {TextReportFile}
          /\ pc' = "text"
          /\ UNCHANGED exitCode
       \/ /\ pc' = "exit"
          /\ exitCode' = <<1>>
          /\ UNCHANGED files
    /\ UNCHANGED <<caller, items, analyzedItems, summary, venSummary, matrix,
                   venDistribution, heap, calls, content>>
    /\ UNCHANGED lineVars
    /\ UNCHANGED args

\* console.log(generateConsoleSummary(...)), the check lines, and the return
\* of main: the process ends with code 0
ConsoleSummary ==
    /\ pc = "text"
    /\ trace' = Append(trace, "generateConsoleSummary")
    /\ exitCode' = <<0>>
    /\ pc' = "end"
    /\ UNCHANGED <<caller, items, analyzedItems, summary, venSummary, matrix,
                   venDistribution, heap, calls, content>>
    /\ UNCHANGED lineVars
    /\ UNCHANGED <<args, files>>

NextMain ==
    \/ CheckArgs
    \/ ParseCSV
    \/ CheckLoaded
    \/ RunAnalyzeABC
    \/ RunABCSummary
    \/ RunVENSummary
    \/ RunVENDistributionByABC
    \/ GenerateCSVReport
    \/ GenerateTextReport
    \/ ConsoleSummary

SpecMain == InitMain /\ [][NextMain]_vars

(***************************************************************************)
(* A line of delimited text: written by the converter                      *)
(* (scripts/convert-excel.ts) from the cells of a sheet row and read back  *)
(* by parseCSV, or read from any file, and split by parseCSVLine.          *)
(***************************************************************************)
\* 'всего' and 'итого'
TotalWords ==
    {<<1074, 1089, 1077, 1075, 1086>>, <<1080, 1090, 1086, 1075, 1086>>}

\* 'уп.'
UnitText == <<1091, 1087, 46>>

\* str.toLowerCase().includes(word) for a word of small Cyrillic letters
\* from 1072 to 1103: toLowerCase gives such a letter for the letter itself
\* and for its capital, 32 below, and for no other code unit
includesLowered(str, word) ==
    \E i \in 1..(Len(str) - Len(word) + 1) :
        \A k \in 1..Len(word) :
            str[i + k - 1] = word[k] \/ str[i + k - 1] = word[k] - 32

\* A cell of a sheet row (XLSX.utils.sheet_to_json with header: 1 and
\* defval: ''): a string, or a number for a numeric cell; the numbers of the
\* model are integers.  A cell has the text of a string or the value of a
\* number.
TextCell(str) == [type |-> "string", text |-> str, number |-> 0]
NumberCell(n) == [type |-> "number", text |-> <<>>, number |-> n]

\* The decimal digits of a natural number
RECURSIVE DigitsOf(_)
DigitsOf(n) ==
    IF n < 10 THEN <<48 + n>>
    ELSE Append(DigitsOf(n \div 10), 48 + (n % 10))

\* String(cell): the string itself, the decimal numeral of an integer
StringOf(cell) ==
    IF cell.type = "number"
    THEN IF cell.number < 0
         THEN <<MinusChar>> \o DigitsOf(-cell.number)
         ELSE DigitsOf(cell.number)
    ELSE cell.text

\* !cell: the empty string and the number 0
Falsy(cell) ==
    IF cell.type = "number" THEN cell.number = 0 ELSE Len(cell.text) = 0

\* String(row[0] || '').trim()
FirstCell(row) == trim(IF Falsy(row[1]) THEN <<>> ELSE StringOf(row[1]))

\* The row is skipped when it is empty or its first cell is falsy, blank or
\* a total: !row || row.length === 0; !firstCell || firstCell.toLowerCase()
\* .includes('всего') || firstCell.toLowerCase().includes('итого')
SkippedRow(row) ==
    \/ Len(row) = 0
    \/ Len(FirstCell(row)) = 0
    \/ \E word \in TotalWords : includesLowered(FirstCell(row), word)

\* config.extraColumn is undefined
NoColumn == -1

\* The values of config.extraColumn
ExtraColumns == {NoColumn, 2}

\* row.slice(from, to), positions counted from 0: the cells there are
Slice(row, from, to) ==
    SubSeq(row, from + 1, IF to < Len(row) THEN to ELSE Len(row))

\* [...row.slice(0, config.extraColumn), ...row.slice(config.extraColumn + 1)]
WithoutColumn(row, extraColumn) ==
    IF extraColumn = NoColumn THEN row
    ELSE Slice(row, 0, extraColumn) \o Slice(row, extraColumn + 1, Len(row))

\* escapeCSV(row[k]) for the cell at index k, counted from 0: '' for
\* undefined
EscapedCell(row, k) ==
    IF k < Len(row) THEN escapeCSV(StringOf(row[k + 1])) ELSE <<>>

\* csvRow: with a unit column the first six cells, escaped; without one the
\* first five cells, escaped, and 'уп.' between the second and the third
CsvRow(row, hasUnitColumn) ==
    IF hasUnitColumn
    THEN Stored([k \in 1..Len(Slice(row, 0, 6)) |-> EscapedCell(row, k - 1)])
    ELSE <<EscapedCell(row, 0), EscapedCell(row, 1), UnitText,
           EscapedCell(row, 2), EscapedCell(row, 3), EscapedCell(row, 4)>>

\* String(csvRow[5] || '').trim().toUpperCase()
VenOfRow(csvRow) ==
    IF Len(csvRow) < 6 THEN <<>> ELSE toUpperCase(trim(csvRow[6]))

\* isNaN(code) || !['V', 'E', 'N'].includes(ven), code being
\* parseInt(String(csvRow[0]), 10): String(undefined) is no number
NoDataRow(csvRow) ==
    \/ Len(csvRow) = 0
    \/ isNaN(parseInt(csvRow[1]))
    \/ VenOfRow(csvRow) \notin VENLetters

\* csvRow[5] = ven; csvRow.join(',')
CsvLine(csvRow) ==
    Join(SubSeq(csvRow, 1, 5) \o <<VenOfRow(csvRow)>>, CommaChar)

\* The rows of a sheet the converter is given: a code cell, a name cell, a
\* unit, a quantity, an amount cell and a criticality cell; without the
\* unit; with an empty third column; with a seventh cell; the code cell
\* alone; and the empty row.  The code cells are '1', ' 1', 'a', '', '1,'
\* and '1Итого' and the numbers 1 and 0; the name cells 'a', 'a,b', '"' and
\* a name of two lines; the amount cells '2' and '1,5' and the number 2
SheetCodes ==
    {TextCell(<<49>>), TextCell(<<32, 49>>), TextCell(<<97>>), TextCell(<<>>),
     TextCell(<<49, 44>>), TextCell(<<49, 1048, 1090, 1086, 1075, 1086>>),
     NumberCell(1), NumberCell(0)}

SheetNames ==
    {TextCell(<<97>>), TextCell(<<97, 44, 98>>), TextCell(<<34>>),
     TextCell(<<97, LineFeed, 98>>)}

SheetAmounts == {TextCell(<<50>>), TextCell(<<49, 44, 53>>), NumberCell(2)}

SheetVens ==
    {TextCell(<<86>>), TextCell(<<118>>), TextCell(<<32, 110, 32>>),
     TextCell(<<88>>), TextCell(<<>>)}

SheetRows ==
    {<<>>}
    \cup {<<code>> : code \in SheetCodes}
    \cup UNION {{<<code, name, TextCell(<<117>>), NumberCell(1), amount, ven>>,
                 <<code, name, NumberCell(1), amount, ven>>,
                 <<code, name, TextCell(<<>>), TextCell(<<117>>),
                   NumberCell(1), amount, ven>>,
                 <<code, name, TextCell(<<117>>), NumberCell(1), amount, ven,
                   TextCell(<<120>>)>>} :
                    <<code, name, amount, ven>> \in
                        SheetCodes \X SheetNames \X SheetAmounts \X SheetVens}

InitLine ==
    /\ \/ /\ caller = "reader"
          /\ pc = "line"
          /\ fields = <<>>
          /\ line \in LineTexts
       \/ /\ caller = "fields"
          /\ pc = "fields"
          /\ fields \in FieldLists
          /\ line = <<>>
       \/ /\ caller = "converter"
          /\ pc = "row"
          /\ fields \in SheetRows
          /\ line = <<>>
    /\ parsed = None
    /\ args = <<>>
    /\ exitCode = <<>>
    /\ trace = <<>>
    /\ files = {}
    /\ items = <<>>
    /\ analyzedItems = <<>>
    /\ summary = None
    /\ venSummary = None
    /\ matrix = None
    /\ venDistribution = None
    /\ heap = <<>>
    /\ calls = <<>>
    /\ content = <<>>

\* The escapeCSV of each field of a list, joined with commas: the line whose
\* split is compared with the list
EscapeFields ==
    /\ caller = "fields"
    /\ pc = "fields"
    /\ line' = Join(Stored([k \in 1..Len(fields) |-> escapeCSV(fields[k])]),
                    CommaChar)
    /\ pc' = "line"
    /\ UNCHANGED <<caller, items, analyzedItems, summary, venSummary, matrix,
                   venDistribution, heap, calls, content, fields, parsed>>
    /\ UNCHANGED mainVars

\* One round of the row loop of convertExcel, for each configuration: the
\* row is skipped, or csvLines.push(csvRow.join(','))
ConvertRow ==
    /\ caller = "converter"
    /\ pc = "row"
    /\ \E hasUnitColumn \in BOOLEAN, extraColumn \in ExtraColumns :
           IF \/ SkippedRow(fields)
              \/ NoDataRow(CsvRow(WithoutColumn(fields, extraColumn),
                                  hasUnitColumn))
           THEN pc' = "skipped" /\ UNCHANGED line
           ELSE /\ line' = CsvLine(CsvRow(WithoutColumn(fields, extraColumn),
                                          hasUnitColumn))
                /\ pc' = "written"
    /\ UNCHANGED <<caller, items, analyzedItems, summary, venSummary, matrix,
                   venDistribution, heap, calls, content, fields, parsed>>
    /\ UNCHANGED mainVars

\* parseCSV reads what the converter wrote for the row: the lines of the
\* file are joined with '\r\n' and parseCSV splits the file at every '\n',
\* so a written line is read as the stretches between its line feeds, the
\* last of them with a carriage return behind it; each stretch is a line of
\* its own.  const line = lines[i].trim();
\* if (!line || line.startsWith(',,Всего:')) continue
ReadLine ==
    /\ caller = "converter"
    /\ pc = "written"
    /\ \E i \in 1..Len(split(line \o <<13>>)) :
           LET text == trim(split(line \o <<13>>)[i])
           IN  IF Len(text) = 0 \/ startsWith(text, TotalPrefix)
               THEN pc' = "skipped" /\ UNCHANGED line
               ELSE line' = text /\ pc' = "line"
    /\ UNCHANGED <<caller, items, analyzedItems, summary, venSummary, matrix,
                   venDistribution, heap, calls, content, fields, parsed>>
    /\ UNCHANGED mainVars

\* const parsed = parseCSVLine(line)
ParseCSVLine ==
    /\ pc = "line"
    /\ parsed' = parseCSVLine(line)
    /\ pc' = "split"
    /\ UNCHANGED <<caller, items, analyzedItems, summary, venSummary, matrix,
                   venDistribution, heap, calls, content, fields, line>>
    /\ UNCHANGED mainVars

NextLine ==
    \/ EscapeFields
    \/ ConvertRow
    \/ ReadLine
    \/ ParseCSVLine

SpecLine == InitLine /\ [][NextLine]_vars

(***************************************************************************)
(* Properties of analyzeABC.                                               *)
(***************************************************************************)
\* |x|
NumAbs(x) == IF x.cls = "nan" THEN x ELSE [x EXCEPT !.sgn = 1]

\* x === y (false whenever either is NaN; +0 equals -0)
NumEq(x, y) ==
    IF x.cls = "nan" \/ y.cls = "nan" THEN FALSE
    ELSE IF x.cls = "zero" /\ y.cls = "zero" THEN TRUE
    ELSE x = y

\* x <= y (false whenever either is NaN)
NumLe(x, y) == NumLt(x, y) \/ NumEq(x, y)

\* 1e-5, the tolerance of toBeCloseTo(100, 5) in analyzer.test.ts
Tolerance == Decimal(1, 100000)

\* |x - y| < 1e-5; FALSE when either is NaN
Near(x, y) == NumLt(NumAbs(NumSub(x, y)), Tolerance)

\* analyzeABC has returned analyzedItems for the input items
Analyzed == caller = "raw" /\ pc # "start"

NonNegative(seq) == \A i \in 1..Len(seq) : NumLe(NumZero, seq[i].amount)

\* The cumulative share of the output items strictly before position i
PrecedingCumulative(i) ==
    IF i = 1 THEN NumZero ELSE analyzedItems[i - 1].cumulativePercent

\* C1: every output item of analyzeABC has tier A iff the cumulative share of
\* the strictly preceding output items is < 80, tier B iff it is in [80, 95)
\* and tier C iff it is >= 95.
ThresholdExclusivity ==
    Analyzed =>
        \A i \in 1..Len(analyzedItems) :
            LET before == PrecedingCumulative(i)
                abc    == analyzedItems[i].abc
            IN  /\ abc = "A" <=> NumLt(before, ThresholdA)
                /\ abc = "B" <=> (NumLe(ThresholdA, before)
                                  /\ NumLt(before, ThresholdB))
                /\ abc = "C" <=> NumLe(ThresholdB, before)

\* C2: the output of analyzeABC is non-increasing in amount: of two adjacent
\* output items the earlier one's amount is >= the later one's.
SortedDescending ==
    Analyzed =>
        \A i \in 1..(Len(analyzedItems) - 1) :
            NumLe(analyzedItems[i + 1].amount, analyzedItems[i].amount)

\* analyzeABC has returned for a long input that was not in descending
\* order, and the merge of its runs has put an item of the second run in
\* front of one of the first
UnsortedInputAnalyzed ==
    /\ Analyzed
    /\ Len(items) >= MergedLength
    /\ \E i \in 1..(Len(items) - 1) :
           NumLt(items[i].amount, items[i + 1].amount)
    /\ \E i, j \in 1..Len(analyzedItems) :
           /\ i < j
           /\ analyzedItems[i].code > MergedLength \div 2
           /\ analyzedItems[j].code <= MergedLength \div 2

\* The caller's array and its items as they are in the heap
InputObjects(seq) == SubSeq(heap, InputRef, Len(HeapOf(seq, FALSE)))

\* C3: analyzeABC does not modify its input: while the call runs and after
\* it the caller's array has the same elements in the same order, and every
\* element has the same fields with the same values.
InputNotModified ==
    InputObjects(items) = SubSeq(HeapOf(items, FALSE), InputRef, Len(HeapOf(items, FALSE)))

\* analyzeABC has returned the items in another order than the caller's,
\* whose array still has every item at its place
ReorderedCopyReturned ==
    /\ pc = "analyzed"
    /\ \E i \in 1..Len(analyzedItems) : analyzedItems[i].code # i
    /\ \A i \in 1..Len(items) : Value(heap, InputRef)[i].code = i

\* C4: for every non-empty input the first output item of analyzeABC has
\* tier A, whatever its own share.
FirstItemIsA ==
    (Analyzed /\ Len(analyzedItems) > 0) => analyzedItems[1].abc = "A"

\* A single item, alone 100% of the total, is classified
SingleItemIsWholeTotal ==
    /\ Analyzed
    /\ Len(analyzedItems) = 1
    /\ NumEq(analyzedItems[1].percentOfTotal, Hundred)

LastCumulative == analyzedItems[Len(analyzedItems)].cumulativePercent

\* C5 as stated: for all non-empty inputs cumulativePercent is non-decreasing
\* across the output order (no item's is less than that of the item before
\* it), and the last one equals 100 when the total amount is > 0.
CumulativeReachesExactly100 ==
    (Analyzed /\ Len(analyzedItems) > 0) =>
        /\ \A i \in 1..(Len(analyzedItems) - 1) :
               ~NumLt(analyzedItems[i + 1].cumulativePercent,
                      analyzedItems[i].cumulativePercent)
        /\ NumLt(NumZero, SumAmounts(analyzedItems))
               => NumEq(LastCumulative, Hundred)

\* C5 amended: for all non-empty inputs with non-negative amounts no output
\* item's cumulativePercent is less than that of the item before it, and the
\* last one is within 1e-5 of 100 when the total amount is > 0.
CumulativeReachesAbout100 ==
    (Analyzed /\ Len(analyzedItems) > 0 /\ NonNegative(items)) =>
        /\ \A i \in 1..(Len(analyzedItems) - 1) :
               ~NumLt(analyzedItems[i + 1].cumulativePercent,
                      analyzedItems[i].cumulativePercent)
        /\ NumLt(NumZero, SumAmounts(analyzedItems))
               => Near(LastCumulative, Hundred)

\* Several non-negative amounts are accumulated to a last cumulativePercent
\* that is near 100 and is not 100
RoundedCumulative ==
    /\ Analyzed
    /\ Len(analyzedItems) > 1
    /\ NonNegative(items)
    /\ NumLt(NumZero, SumAmounts(analyzedItems))
    /\ ~NumEq(LastCumulative, Hundred)
    /\ NumLt(analyzedItems[1].cumulativePercent, LastCumulative)

\* C6: when the total amount of a non-empty input is zero (all amounts zero)
\* every output item has percentOfTotal = 0.
ZeroTotalGivesZeroPercent ==
    (/\ Analyzed
     /\ Len(analyzedItems) > 0
     /\ \A i \in 1..Len(items) : NumEq(items[i].amount, NumZero)) =>
        \A i \in 1..Len(analyzedItems) :
            NumEq(analyzedItems[i].percentOfTotal, NumZero)

(***************************************************************************)
(* Properties of the aggregation functions.                                *)
(***************************************************************************)
IsZero(x) == NumEq(x, NumZero)

\* a + b + c as the additions of numbers
Sum3(a, b, c) == NumAdd(NumAdd(a, b), c)

\* The three cells of a row, added in the order V, E, N
RowSum(row, field) == Sum3(row["V"][field], row["E"][field], row["N"][field])

\* The nine cells of a table, added row by row in the order A, B, C
TableSum(table, field) ==
    Sum3(RowSum(table["A"], field), RowSum(table["B"], field),
         RowSum(table["C"], field))

RowCount(row) == row["V"].count + row["E"].count + row["N"].count

TierItems(abc) == SelectSeq(analyzedItems, LAMBDA it : it.abc = abc)

\* Every percentage of a list of entries is 0 where its denominator is zero
ZeroWhereUndefined(entries, count, amount) ==
    \A k \in DOMAIN entries :
        /\ count = 0 => IsZero(entries[k].percentCount)
        /\ IsZero(amount) => IsZero(entries[k].percentAmount)

\* C7: in each of the four aggregation functions a percentage whose
\* denominator (total count, total amount, group count or group amount) is
\* zero is 0, also for the empty sequence.
ZeroDenominatorGivesZero ==
    LET totalCount  == Len(analyzedItems)
        totalAmount == SumAmounts(analyzedItems)
    IN  /\ summary # None
               => ZeroWhereUndefined(summary, totalCount, totalAmount)
        /\ venSummary # None
               => ZeroWhereUndefined(venSummary, totalCount, totalAmount)
        /\ matrix # None
               => \A abc \in ABCCategory :
                      ZeroWhereUndefined(matrix[abc], totalCount, totalAmount)
        /\ venDistribution # None
               => \A abc \in ABCCategory :
                      ZeroWhereUndefined(venDistribution[abc],
                                         Len(TierItems(abc)),
                                         SumAmounts(TierItems(abc)))

\* C8 as stated: in the result of getVENDistributionByABC the three cells of
\* every tier with at least one item have percentCount summing to 100 and
\* percentAmount summing to 100.
DistributionSumsToExactly100 ==
    venDistribution # None =>
        \A abc \in ABCCategory :
            Len(TierItems(abc)) > 0 =>
                /\ NumEq(RowSum(venDistribution[abc], "percentCount"), Hundred)
                /\ NumEq(RowSum(venDistribution[abc], "percentAmount"), Hundred)

\* C8 amended: for non-negative amounts the three cells of every tier with at
\* least one item have percentCount summing to 100 within 1e-5, and those of
\* every tier whose items have a positive amount in total have percentAmount
\* summing to 100 within 1e-5; in a tier whose amounts total 0 the three
\* percentAmount are 0.
DistributionSumsToAbout100 ==
    (venDistribution # None /\ NonNegative(analyzedItems)) =>
        \A abc \in ABCCategory :
            /\ Len(TierItems(abc)) > 0
                   => Near(RowSum(venDistribution[abc], "percentCount"),
                           Hundred)
            /\ NumLt(NumZero, SumAmounts(TierItems(abc)))
                   => Near(RowSum(venDistribution[abc], "percentAmount"),
                           Hundred)
            /\ IsZero(SumAmounts(TierItems(abc)))
                   => \A ven \in VENCategory :
                          IsZero(venDistribution[abc][ven].percentAmount)

\* A tier with items of two criticalities and a positive amount has its
\* distribution, beside another tier that has items too
TwoTiersDistributed ==
    /\ venDistribution # None
    /\ NonNegative(analyzedItems)
    /\ \E abc \in ABCCategory :
           /\ NumLt(NumZero, SumAmounts(TierItems(abc)))
           /\ \E v, w \in VENCategory :
                  /\ v # w
                  /\ venDistribution[abc][v].count > 0
                  /\ venDistribution[abc][w].count > 0
           /\ \E other \in ABCCategory \ {abc} :
                  NumLt(NumZero, SumAmounts(TierItems(other)))

SummaryCount(entries) == entries[1].count + entries[2].count + entries[3].count

SummaryAmount(entries) ==
    Sum3(entries[1].amount, entries[2].amount, entries[3].amount)

\* C9 as stated: the counts of the three entries of getABCSummary sum to the
\* number of items and their amounts sum to the total amount of all items;
\* likewise for getVENSummary.
SummaryTotalsExact ==
    /\ summary # None
           => /\ SummaryCount(summary) = Len(analyzedItems)
              /\ NumEq(SummaryAmount(summary), SumAmounts(analyzedItems))
    /\ venSummary # None
           => /\ SummaryCount(venSummary) = Len(analyzedItems)
              /\ NumEq(SummaryAmount(venSummary), SumAmounts(analyzedItems))

\* 1e-9
RelativeTolerance == Decimal(1, 1000000000)

RECURSIVE SumAbsFrom(_, _, _)
SumAbsFrom(seq, i, sum) ==
    IF i > Len(seq) THEN sum
    ELSE SumAbsFrom(seq, i + 1, NumAdd(sum, NumAbs(seq[i].amount)))

\* x and the total amount differ by at most 1e-9 times the sum of the
\* absolute amounts
NearTotal(x) ==
    NumLe(NumAbs(NumSub(x, SumAmounts(analyzedItems))),
          NumMul(RelativeTolerance, SumAbsFrom(analyzedItems, 1, NumZero)))

\* C9 amended: the counts of the three entries of getABCSummary sum to the
\* number of items, and their amounts sum to the total amount of all items up
\* to rounding: the two differ by at most 1e-9 times the sum of the absolute
\* amounts; likewise for getVENSummary.
SummaryTotalsRoundTrip ==
    /\ summary # None
           => /\ SummaryCount(summary) = Len(analyzedItems)
              /\ NearTotal(SummaryAmount(summary))
    /\ venSummary # None
           => /\ SummaryCount(venSummary) = Len(analyzedItems)
              /\ NearTotal(SummaryAmount(venSummary))

\* A summary holds a group of several items with positive amounts
GroupOfSeveralSummed ==
    \E entries \in {summary, venSummary} \ {None} :
        \E k \in 1..3 :
            /\ entries[k].count > 1
            /\ entries[k].count < Len(analyzedItems)
            /\ NumLt(NumZero, entries[k].amount)
            /\ \A i \in 1..Len(analyzedItems) :
                   NumLt(NumZero, analyzedItems[i].amount)

MatrixCount == RowCount(matrix["A"]) + RowCount(matrix["B"]) + RowCount(matrix["C"])

\* C10 as stated: the counts of the 9 cells of getABCVENMatrix sum to the
\* number of items and the percentAmount values of the 9 cells sum to 100.
MatrixSumsToExactly100 ==
    matrix # None =>
        /\ MatrixCount = Len(analyzedItems)
        /\ NumEq(TableSum(matrix, "percentAmount"), Hundred)

\* C10 amended: the counts of the 9 cells of getABCVENMatrix sum to the
\* number of items, and for non-negative amounts with a positive total the
\* percentAmount values of the 9 cells sum to 100 within 1e-5.
MatrixSumsToAbout100 ==
    matrix # None =>
        /\ MatrixCount = Len(analyzedItems)
        /\ (NonNegative(analyzedItems)
            /\ NumLt(NumZero, SumAmounts(analyzedItems)))
               => Near(TableSum(matrix, "percentAmount"), Hundred)

\* The matrix of items with positive amounts in several cells
SeveralCellsFilled ==
    /\ matrix # None
    /\ NonNegative(analyzedItems)
    /\ \E a, b \in ABCCategory : \E v, w \in VENCategory :
           /\ <<a, v>> # <<b, w>>
           /\ NumLt(NumZero, matrix[a][v].amount)
           /\ NumLt(NumZero, matrix[b][w].amount)

(***************************************************************************)
(* Shape of the results.                                                   *)
(***************************************************************************)
Categories(entries) == [k \in 1..Len(entries) |-> entries[k].category]

\* C11: getABCSummary returns exactly three entries in the order A, B, C and
\* getVENSummary exactly three entries in the order V, E, N, whatever the
\* order of the items and whichever categories are absent.
SummaryOrderFixed ==
    /\ summary # None => Categories(summary) = <<"A", "B", "C">>
    /\ venSummary # None => Categories(venSummary) = <<"V", "E", "N">>

\* A summary of a sequence that starts with a tier C item and has no tier A
\* item
SummaryOfReversedTiers ==
    /\ summary # None
    /\ Len(analyzedItems) > 0
    /\ analyzedItems[1].abc = "C"
    /\ \A i \in 1..Len(analyzedItems) : analyzedItems[i].abc # "A"

\* The entries of the categories that no item has are all zero
ZeroFilled(entries, Category(_)) ==
    \A k \in 1..Len(entries) :
        (\A i \in 1..Len(analyzedItems) :
             Category(analyzedItems[i]) # entries[k].category)
            => /\ entries[k].count = 0
               /\ IsZero(entries[k].amount)
               /\ IsZero(entries[k].percentCount)
               /\ IsZero(entries[k].percentAmount)

\* C12: for any batch without an item in some tier, getABCSummary has an
\* entry for that tier with count 0, amount 0, percentCount 0 and
\* percentAmount 0; likewise getVENSummary for a criticality no item carries.
EmptyCategoryZeroFilled ==
    /\ summary # None => ZeroFilled(summary, LAMBDA it : it.abc)
    /\ venSummary # None => ZeroFilled(venSummary, LAMBDA it : it.ven)

HasAllCells(table) ==
    /\ DOMAIN table = ABCCategory
    /\ \A abc \in ABCCategory :
           /\ DOMAIN table[abc] = VENCategory
           /\ \A ven \in VENCategory :
                  DOMAIN table[abc][ven]
                      = {"count", "amount", "percentCount", "percentAmount"}

\* C13: the results of getABCVENMatrix and of getVENDistributionByABC have
\* all 9 (tier, criticality) cells, each with the fields count, amount,
\* percentCount and percentAmount, for every input, the empty one included.
AllCellsPresent ==
    /\ matrix # None => HasAllCells(matrix)
    /\ venDistribution # None => HasAllCells(venDistribution)

\* The matrix of a non-empty sequence that has no item in some tier
MatrixOfSparseItems ==
    /\ matrix # None
    /\ Len(analyzedItems) > 0
    /\ \E abc \in ABCCategory : Len(TierItems(abc)) = 0

\* C14: in the result of getVENDistributionByABC the three cells of every
\* tier without items have count 0, amount 0, percentCount 0 and
\* percentAmount 0.
EmptyTierAllZero ==
    venDistribution # None =>
        \A abc \in ABCCategory :
            Len(TierItems(abc)) = 0 =>
                \A ven \in VENCategory :
                    LET cell == venDistribution[abc][ven]
                    IN  /\ cell.count = 0
                        /\ IsZero(cell.amount)
                        /\ IsZero(cell.percentCount)
                        /\ IsZero(cell.percentAmount)

\* The distribution of a sequence with items in one tier and none in another
DistributionWithEmptyTier ==
    /\ venDistribution # None
    /\ \E abc \in ABCCategory : Len(TierItems(abc)) = 0
    /\ \E abc \in ABCCategory : Len(TierItems(abc)) > 0

CellItems(abc, ven) ==
    SelectSeq(analyzedItems, LAMBDA it : it.abc = abc /\ it.ven = ven)

\* C15: for a non-empty input with a non-zero total amount every cell of
\* getABCVENMatrix has percentCount = cellCount / totalCount * 100 and
\* percentAmount = cellAmount / totalAmount * 100, the totals being those of
\* all items, not of the cell's tier.
MatrixOverGrandTotals ==
    (/\ matrix # None
     /\ Len(analyzedItems) > 0
     /\ ~IsZero(SumAmounts(analyzedItems))) =>
        \A abc \in ABCCategory : \A ven \in VENCategory :
            /\ NumEq(matrix[abc][ven].percentCount,
                     Percent(FromInt(Len(CellItems(abc, ven))),
                             FromInt(Len(analyzedItems))))
            /\ NumEq(matrix[abc][ven].percentAmount,
                     Percent(SumAmounts(CellItems(abc, ven)),
                             SumAmounts(analyzedItems)))

\* The matrix of items with positive amounts in two tiers
MatrixOfTwoTiers ==
    /\ matrix # None
    /\ \E a, b \in ABCCategory :
           /\ a # b
           /\ NumLt(NumZero, SumAmounts(TierItems(a)))
           /\ NumLt(NumZero, SumAmounts(TierItems(b)))

\* The fields of an item that analyzeABC takes over from its input
RawPart(it) ==
    [code |-> it.code, name |-> it.name, unit |-> it.unit,
     quantity |-> it.quantity, amount |-> it.amount, ven |-> it.ven]

\* C16: the output of analyzeABC is a permutation of its input: it has the
\* length of the input, and every output item carries the code, name, unit,
\* quantity, amount and ven of exactly one input item, unchanged, with only
\* percentOfTotal, cumulativePercent and abc added.
OutputIsPermutation ==
    Analyzed =>
        /\ Len(analyzedItems) = Len(items)
        /\ \A i \in 1..Len(analyzedItems) :
               /\ DOMAIN analyzedItems[i]
                      = {"code", "name", "unit", "quantity", "amount", "ven",
                         "percentOfTotal", "cumulativePercent", "abc"}
               /\ analyzedItems[i].code \in 1..Len(items)
               /\ RawPart(analyzedItems[i]) = items[analyzedItems[i].code]
        /\ \A i, j \in 1..Len(analyzedItems) :
               i # j => analyzedItems[i].code # analyzedItems[j].code

\* analyzeABC has returned for a long input with two items of the same
\* amount and an item without a positive amount
DuplicatesAnalyzed ==
    /\ Analyzed
    /\ Len(items) >= MergedLength
    /\ \E i, j \in 1..Len(items) :
           i < j /\ NumEq(items[i].amount, items[j].amount)
    /\ \E i \in 1..Len(items) : NumLe(items[i].amount, NumZero)

(***************************************************************************)
(* Errors and termination.                                                 *)
(***************************************************************************)
\* The input of the caller is well typed: every element is an item, the
\* tier of a classified item is A, B or C and its criticality V, E or N
WellTyped ==
    /\ \A i \in 1..Len(items) :
           items[i] \notin {Null, Undef} /\ items[i].ven \in VENCategory
    /\ \A i \in 1..Len(analyzedItems) :
           /\ analyzedItems[i] \notin {Null, Undef}
           /\ analyzedItems[i].abc \in ABCCategory
           /\ analyzedItems[i].ven \in VENCategory

\* The call has left a result: an array with an item for every item of the
\* input, a summary of three entries, or a table of the three tiers
HasResult(c) ==
    /\ c.ret # NoRef
    /\ CASE c.fn = "analyzeABC" ->
                Len(heap[c.ret].value) = Len(items)
         [] c.fn \in {"getABCSummary", "getVENSummary"} ->
                Len(heap[c.ret].value) = 3
         [] OTHER -> DOMAIN heap[c.ret].value = ABCCategory

\* C17: analyzeABC and the four aggregation functions terminate with a
\* result and raise no error for every finite input sequence of items, the
\* empty sequence and zero, duplicate and negative amounts included: no
\* call raises, a call that has returned has left its result, and a call
\* that has begun is over at some time.
TerminatesWithoutError ==
    /\ [](WellTyped =>
              \A k \in 1..Len(calls) :
                  /\ calls[k].at # "raised"
                  /\ calls[k].at = "returned" => HasResult(calls[k]))
    /\ [](Running =>
              Stepped(heap, calls[Len(calls)]).call # calls[Len(calls)])
    /\ (WellTyped /\ Running) ~> ~Running

\* An aggregation function has returned its result for the classified items
\* of an input with a negative, a zero and a duplicate amount
OddAmountsAggregated ==
    /\ caller = "raw"
    /\ Len(calls) = 2
    /\ calls[2].at = "returned"
    /\ \E i, j, k \in 1..Len(items) :
           /\ NumLt(items[i].amount, NumZero)
           /\ IsZero(items[j].amount)
           /\ k # j /\ NumEq(items[j].amount, items[k].amount)

(***************************************************************************)
(* Independence of the aggregation functions.                              *)
(***************************************************************************)
\* The result of one aggregation function on a sequence, as a value
Apply(fn, seq) ==
    CASE fn = "getABCSummary" -> getABCSummary(seq)
      [] fn = "getVENSummary" -> getVENSummary(seq)
      [] fn = "getABCVENMatrix" -> getABCVENMatrix(seq)
      [] fn = "getVENDistributionByABC" -> getVENDistributionByABC(seq)

\* The calls that have returned and whose result the caller has not changed
Kept == {k \in 1..Len(calls) : calls[k].at = "returned" /\ ~calls[k].changed}

\* C18: the four aggregation functions are independent: on one classified
\* sequence, in any order (a call begins when the call before is over),
\* each returns the result it returns when it is run alone, and none
\* changes the sequence, any of its items or Object.prototype.
CallsIndependent ==
    /\ \A k \in Kept :
           /\ Value(heap, calls[k].ret) = RunAlone(calls[k].fn, analyzedItems)
           /\ Value(heap, calls[k].ret) = Apply(calls[k].fn, analyzedItems)
    /\ SubSeq(heap, 1, Len(HeapOf(analyzedItems, FALSE)))
           = HeapOf(analyzedItems, FALSE)

\* Two different functions have been applied to a sequence of two items
TwoFunctionsCalled ==
    /\ Len(calls) = 2
    /\ calls[1].fn # calls[2].fn
    /\ Len(analyzedItems) = 2
    /\ Kept = {1, 2}

\* C19: two calls of one aggregation function on the same classified
\* sequence return two separately allocated results of equal content: no
\* object of one result is an object of the other or of the sequence,
\* changing the first does not change the second, and no state is kept
\* between the calls.
ResultsFreshPerCall ==
    \A i, j \in 1..Len(calls) :
        (i < j /\ calls[i].fn = calls[j].fn /\ calls[j].at = "returned") =>
            LET first  == Reach(heap, calls[i].ret)
                second == Reach(heap, calls[j].ret)
            IN  /\ first \cap second = {}
                /\ (first \cup second) \cap Reach(heap, SequenceRef) = {}
                /\ (i \in Kept /\ j \in Kept)
                       => Value(heap, calls[i].ret) = Value(heap, calls[j].ret)
                /\ j \in Kept
                       => Value(heap, calls[j].ret)
                              = Apply(calls[j].fn, analyzedItems)

\* A function has been applied twice to a non-empty sequence and the first
\* result has been changed since
FirstOfTwoChanged ==
    /\ Len(calls) = 2
    /\ calls[1].fn = calls[2].fn
    /\ Len(analyzedItems) > 0
    /\ calls[1].changed
    /\ Kept = {2}

(***************************************************************************)
(* Properties of the parser.                                               *)
(***************************************************************************)
Lines == split(content)

\* The conditions under which a line of the file gives an item; i is the
\* index of the line, from 0
GivesItem(i) ==
    LET text  == Lines[i + 1]
        cells == parseCSVLine(text)
    IN  /\ i >= 4
        /\ Len(trim(text)) > 0
        /\ ~startsWith(text, TotalPrefix)
        /\ Len(cells) >= 6
        /\ ~isNaN(parseInt(cells[1]))
        /\ Len(cells[2]) > 0
        /\ toUpperCase(trim(cells[6])) \in VENLetters

\* The indices of the lines that give an item, in file order
RECURSIVE ItemLinesFrom(_)
ItemLinesFrom(i) ==
    IF i >= Len(Lines) THEN <<>>
    ELSE IF GivesItem(i) THEN <<i>> \o ItemLinesFrom(i + 1)
    ELSE ItemLinesFrom(i + 1)

ItemLines == ItemLinesFrom(0)

\* The item is the one of line i: its code, its name and its normalized
\* criticality letter
ItemOfLine(item, i) ==
    LET cells == parseCSVLine(Lines[i + 1])
    IN  /\ item.code = parseInt(cells[1])
        /\ item.name = cells[2]
        /\ <<item.ven>> \in {<<"V">>, <<"E">>, <<"N">>}
        /\ AsVENCategory(toUpperCase(trim(cells[6]))) = item.ven

\* C20: parseCSV emits an item for a line if and only if the line has index
\* 4 or more, is not empty after trimming, does not start with ',,Всего:',
\* splits into 6 fields or more, has a first field that parses to an
\* integer, a non-empty name and a sixth field that is V, E or N after
\* trimming and upper-casing; the item's ven is that letter, and the items
\* are in file order.
ItemsAreTheWellFormedRows ==
    pc # "file" =>
        /\ Len(items) = Len(ItemLines)
        /\ \A k \in 1..Len(items) : ItemOfLine(items[k], ItemLines[k])

\* A file whose header rows are well formed and are skipped, with two data
\* lines that both give an item, of different codes, one of them with a
\* criticality that had to be normalized
TwoRowsParsed ==
    /\ pc = "parsed"
    /\ Len(Lines) = 6
    /\ \A i \in 0..3 : Len(trim(Lines[i + 1])) > 0
    /\ Len(items) = 2
    /\ items[1].code # items[2].code
    /\ \E i \in 4..5 : parseCSVLine(Lines[i + 1])[6] \notin VENLetters

(***************************************************************************)
(* The running share and the order of analyzeABC.                          *)
(***************************************************************************)
\* The shares of the output items 1..i added up in output order, from 0
RECURSIVE ShareSum(_)
ShareSum(i) ==
    IF i = 0 THEN NumZero
    ELSE NumAdd(ShareSum(i - 1), analyzedItems[i].percentOfTotal)

\* analyzeABC of the amounts 50, 30 and 20
FiftyThirtyTwenty ==
    analyzeABC(<<DrugItem(1, FromInt(50), "V"), DrugItem(2, FromInt(30), "E"),
                 DrugItem(3, FromInt(20), "N")>>)

\* C22: the cumulativePercent of every output item of analyzeABC is the sum
\* of the percentOfTotal of the items up to and including it, in output
\* order; its tier is decided from the running value before its own share
\* is added.  The amounts 50, 30, 20 give 50, 80, 100 and the tiers A, A, B.
CumulativeIsRunningSum ==
    /\ Analyzed =>
           \A i \in 1..Len(analyzedItems) :
               /\ analyzedItems[i].cumulativePercent = ShareSum(i)
               /\ analyzedItems[i].abc = CategoryOf(ShareSum(i - 1))
    /\ [i \in 1..3 |-> FiftyThirtyTwenty[i].cumulativePercent]
           = <<FromInt(50), FromInt(80), FromInt(100)>>
    /\ [i \in 1..3 |-> FiftyThirtyTwenty[i].abc] = <<"A", "A", "B">>

\* The second of two items is in tier A although its own cumulativePercent
\* is past both thresholds (amounts 0.3 and 0.1: 75 and 100)
TierFromValueBefore ==
    /\ Analyzed
    /\ Len(analyzedItems) = 2
    /\ analyzedItems[2].abc = "A"
    /\ CategoryOf(analyzedItems[2].cumulativePercent) = "C"
    /\ NumLt(NumZero, analyzedItems[2].percentOfTotal)

\* The orders in which n amounts can be added
Orders(n) ==
    {p \in [1..n -> 1..n] : \A i, j \in 1..n : i # j => p[i] # p[j]}

\* The sums of the amounts of all input items: the amounts are binary64
\* numbers, so is their sum, and it is the sum in an order of addition
InputTotals ==
    {SumAmounts([k \in 1..Len(items) |-> items[p[k]]]) :
        p \in Orders(Len(items))}

\* C23: for every input with a non-zero total amount each output item of
\* analyzeABC has percentOfTotal = amount / total * 100, total being the sum
\* of the amounts of all input items (one total for all items of a call);
\* an item of amount 0 has percentOfTotal 0.
ShareOfTotal ==
    (Analyzed /\ \A total \in InputTotals : ~IsZero(total)) =>
        \E total \in InputTotals :
            \A i \in 1..Len(analyzedItems) :
                /\ analyzedItems[i].percentOfTotal
                       = Percent(analyzedItems[i].amount, total)
                /\ IsZero(analyzedItems[i].amount)
                       => IsZero(analyzedItems[i].percentOfTotal)

\* Three positive amounts whose sum depends on the order of addition: in
\* input order it is not what it is in output order (0.1, 0.1, 1.6: 1.8 and
\* 1.8000000000000003)
TotalDependsOnOrder ==
    /\ Analyzed
    /\ Len(analyzedItems) = 3
    /\ \A i \in 1..3 : NumLt(NumZero, analyzedItems[i].amount)
    /\ SumAmounts(items) # SumAmounts(analyzedItems)

\* C24: the ordering of analyzeABC is stable: two items of equal amounts are
\* in the output in their input order (the code of an input item is its
\* position), so with the descending order of C2 the output order is fixed
\* by the input.
EqualAmountsKeepInputOrder ==
    Analyzed =>
        \A i, j \in 1..Len(analyzedItems) :
            (i < j /\ NumEq(analyzedItems[i].amount, analyzedItems[j].amount))
                => analyzedItems[i].code < analyzedItems[j].code

\* Two items of a long input, one in its first run and one in its second,
\* have the same amount and an item between them a larger one, and the
\* merge has put the two next to each other
TiesAroundLargerItem ==
    /\ Analyzed
    /\ Len(items) >= MergedLength
    /\ \E i, j \in 1..Len(items) :
           /\ i <= MergedLength \div 2
           /\ j > MergedLength \div 2
           /\ NumEq(items[i].amount, items[j].amount)
           /\ \E k \in (i + 1)..(j - 1) :
                  NumLt(items[i].amount, items[k].amount)
           /\ \E at \in 1..(Len(analyzedItems) - 1) :
                  /\ analyzedItems[at].code = i
                  /\ analyzedItems[at + 1].code = j

TierRank(abc) == CASE abc = "A" -> 1 [] abc = "B" -> 2 [] abc = "C" -> 3

\* The input has no negative amount and a positive total
PositiveBatch ==
    /\ NonNegative(items)
    /\ NumLt(NumZero, SumAmounts(items))

\* C25: for an input of non-negative amounts with a positive total the tiers
\* never go back in output order: no A after a B, nothing but C after a C.
TiersNeverGoBack ==
    (Analyzed /\ PositiveBatch) =>
        \A i, j \in 1..Len(analyzedItems) :
            i < j => TierRank(analyzedItems[i].abc)
                         <= TierRank(analyzedItems[j].abc)

\* Three items of positive amounts in the tiers A, B and C
ThreeTiersInOrder ==
    /\ Analyzed
    /\ PositiveBatch
    /\ [i \in 1..Len(analyzedItems) |-> analyzedItems[i].abc] = <<"A", "B", "C">>

(***************************************************************************)
(* The summary of an analysed batch.                                       *)
(***************************************************************************)
HasTier(abc) == \E i \in 1..Len(analyzedItems) : analyzedItems[i].abc = abc

\* The summary of the output of analyzeABC for a batch of non-negative
\* amounts with a positive total
SummaryOfPositiveBatch ==
    /\ caller = "raw"
    /\ summary # None
    /\ PositiveBatch

\* x >= y
AtLeast(x, y) == ~NumLt(x, y)

\* x >= y up to rounding
AboutAtLeast(x, y) == ~NumLt(NumAdd(x, Tolerance), y)

\* C26 as stated: for non-negative amounts with a positive total, if an item
\* is in tier B or C then the percentAmount of tier A in getABCSummary is
\* >= 80, and if an item is in tier C then the percentAmount of A plus that
\* of B is >= 95.
TierSharesReachThresholds ==
    SummaryOfPositiveBatch =>
        /\ (HasTier("B") \/ HasTier("C"))
               => AtLeast(summary[1].percentAmount, ThresholdA)
        /\ HasTier("C")
               => AtLeast(NumAdd(summary[1].percentAmount,
                                 summary[2].percentAmount), ThresholdB)

\* C26: for non-negative amounts with a positive total, if an item is in
\* tier B or C then the percentAmount of tier A in getABCSummary is >= 80 up
\* to rounding (above 80 - 0.00001), and if an item is in tier C then the
\* percentAmount of A plus that of B is >= 95 up to rounding.
TierSharesAboutReachThresholds ==
    SummaryOfPositiveBatch =>
        /\ (HasTier("B") \/ HasTier("C"))
               => AboutAtLeast(summary[1].percentAmount, ThresholdA)
        /\ HasTier("C")
               => AboutAtLeast(NumAdd(summary[1].percentAmount,
                                      summary[2].percentAmount), ThresholdB)

\* A batch with an item in tier C whose tiers A and B together have a
\* percentAmount just below 95 (1.4, 0.4, 0.1, 0.1: 89.99999999999999 + 5)
SharesRoundedBelowThreshold ==
    /\ SummaryOfPositiveBatch
    /\ HasTier("A") /\ HasTier("B") /\ HasTier("C")
    /\ NumLt(NumAdd(summary[1].percentAmount, summary[2].percentAmount),
             ThresholdB)

(***************************************************************************)
(* The matrix, the distribution and the summaries of one sequence.         *)
(***************************************************************************)
\* Two tables have the same cells but for percentCount and percentAmount
SameButPercents(table, other) ==
    /\ DOMAIN table = ABCCategory
    /\ DOMAIN other = ABCCategory
    /\ \A abc \in ABCCategory :
           /\ DOMAIN table[abc] = VENCategory
           /\ DOMAIN other[abc] = VENCategory
           /\ \A ven \in VENCategory :
                  /\ table[abc][ven].count = other[abc][ven].count
                  /\ table[abc][ven].amount = other[abc][ven].amount
                  /\ [table[abc][ven] EXCEPT
                          !.percentCount = other[abc][ven].percentCount,
                          !.percentAmount = other[abc][ven].percentAmount]
                         = other[abc][ven]

\* C27: for any classified sequence and every (tier, criticality) pair, the
\* cell of getABCVENMatrix and the cell of getVENDistributionByABC have the
\* same count and the same amount; the two results differ only in
\* percentCount and percentAmount.
MatrixAndDistributionSameCells ==
    /\ matrix # None
           => SameButPercents(matrix, getVENDistributionByABC(analyzedItems))
    /\ venDistribution # None
           => SameButPercents(getABCVENMatrix(analyzedItems), venDistribution)

\* A distribution with a cell of several items of positive amount whose
\* percentAmount is not the one of the matrix
CellsDifferInPercents ==
    /\ venDistribution # None
    /\ \E abc \in ABCCategory : \E ven \in VENCategory :
           LET cell  == venDistribution[abc][ven]
               other == getABCVENMatrix(analyzedItems)[abc][ven]
           IN  /\ cell.count > 1
               /\ NumLt(NumZero, cell.amount)
               /\ cell.amount = other.amount
               /\ cell.percentAmount # other.percentAmount
               /\ cell.percentCount # other.percentCount

\* The results the caller holds, unchanged, of a function
ResultsOf(fn) == {Value(heap, calls[k].ret) : k \in {j \in Kept : calls[j].fn = fn}}

\* The entry of a summary for a category
EntryOf(entries, category) ==
    entries[CHOOSE k \in 1..Len(entries) : entries[k].category = category]

\* C28: for any classified sequence, the counts of a tier's three cells in
\* getABCVENMatrix sum to that tier's count in getABCSummary, and the counts
\* of a criticality tag's three cells (over the tiers) sum to that tag's
\* count in getVENSummary.
MatrixCountsSumToSummaries ==
    \A table \in ResultsOf("getABCVENMatrix") :
        /\ \A entries \in ResultsOf("getABCSummary") :
               \A abc \in ABCCategory :
                   table[abc]["V"].count + table[abc]["E"].count
                       + table[abc]["N"].count
                       = EntryOf(entries, abc).count
        /\ \A entries \in ResultsOf("getVENSummary") :
               \A ven \in VENCategory :
                   table["A"][ven].count + table["B"][ven].count
                       + table["C"][ven].count
                       = EntryOf(entries, ven).count

\* The matrix and a summary of two items of different tiers and
\* criticalities have been returned
MatrixAndSummaryReturned ==
    /\ Len(analyzedItems) = 2
    /\ analyzedItems[1].abc # analyzedItems[2].abc
    /\ analyzedItems[1].ven # analyzedItems[2].ven
    /\ ResultsOf("getABCVENMatrix") # {}
    /\ ResultsOf("getABCSummary") \cup ResultsOf("getVENSummary") # {}

(***************************************************************************)
(* The order of the command-line run.                                      *)
(***************************************************************************)
\* The calls of a run that loads at least one item, in order
FullRun ==
    <<"parseCSV", "analyzeABC", "getABCSummary", "getVENSummary",
      "getVENDistributionByABC", "generateCSVReport", "generateTextReport",
      "generateConsoleSummary">>

Called(fn) == \E k \in 1..Len(trace) : trace[k] = fn

\* Nothing of the analysis has run and no report file is written
NothingAnalysed ==
    /\ \A k \in 1..Len(trace) : trace[k] = "parseCSV"
    /\ files = {}
    /\ analyzedItems = <<>>

\* C29: in the command-line run, the analysis and the two report writers
\* run only after parseCSV returned at least one item: with no argument, or
\* when zero items were parsed, the run ends with exit code 1 before
\* analyzeABC is called and before any report file is written; otherwise
\* the order is parseCSV, analyzeABC, the summaries, generateCSVReport,
\* generateTextReport, then the console summary.
AnalysisOnlyAfterItemsLoaded ==
    /\ (Called("analyzeABC") \/ files # {})
           => /\ Len(args) > 0
              /\ trace[1] = "parseCSV"
              /\ Len(items) > 0
    /\ (Len(args) = 0 /\ pc # "args")
           => /\ pc = "exit"
              /\ exitCode = <<1>>
              /\ trace = <<>>
              /\ NothingAnalysed
    /\ (Len(items) = 0 /\ pc \notin {"args", "file", "parsed"})
           => /\ pc = "exit"
              /\ exitCode = <<1>>
              /\ NothingAnalysed
    /\ Len(trace) <= Len(FullRun)
    /\ trace = SubSeq(FullRun, 1, Len(trace))
    /\ (CSVReportFile \in files) = Called("generateCSVReport")
    /\ (TextReportFile \in files) = Called("generateTextReport")
    /\ (Len(items) > 0 /\ exitCode # <<>>)
           => /\ pc = "end"
              /\ trace = FullRun
              /\ files = {CSVReportFile, TextReportFile}

\* A run that loaded items has ended in generateTextReport: the report of
\* generateCSVReport is written, the text report is not, the code is 1
RunEndedInTextReport ==
    /\ pc = "exit"
    /\ exitCode = <<1>>
    /\ Len(items) > 0
    /\ trace = SubSeq(FullRun, 1, 7)
    /\ files = {CSVReportFile}

\* A run that loaded two items has ended after the console summary
RunEndedAfterConsoleSummary ==
    /\ pc = "end"
    /\ Len(items) = 2
    /\ Len(analyzedItems) = 2
    /\ trace = FullRun
    /\ files = {CSVReportFile, TextReportFile}

(***************************************************************************)
(* Properties of parseCSVLine.                                             *)
(***************************************************************************)
\* Double quotes of the line before position i
QuotesBefore(i) == Cardinality({j \in 1..(i - 1) : line[j] = QuoteChar})

\* Position i is inside double quotes: an odd number of them precedes it
InsideQuotes(i) == QuotesBefore(i) % 2 = 1

\* The commas outside double quotes
Separators ==
    {i \in 1..Len(line) : line[i] = CommaChar /\ ~InsideQuotes(i)}

\* The first of the run of consecutive double quotes that position i is in
RunStart(i) ==
    CHOOSE first \in 1..i :
        /\ \A j \in first..i : line[j] = QuoteChar
        /\ first = 1 \/ line[first - 1] # QuoteChar

\* A double quote of the line that stands for a literal double quote: in a
\* run of double quotes that begins inside quotes every second one, in a run
\* that begins outside every second one after the opening one
LiteralQuote(i) ==
    LET offset == i - RunStart(i)
    IN  IF InsideQuotes(RunStart(i))
        THEN offset % 2 = 1
        ELSE offset >= 2 /\ offset % 2 = 0

\* The piece of the line between separators k - 1 and k (or the ends), with
\* the double quotes dropped that are not literal
PieceStart(k) ==
    IF k = 1 THEN 1
    ELSE 1 + CHOOSE i \in Separators :
                 Cardinality({j \in Separators : j <= i}) = k - 1
PieceEnd(k) ==
    IF k = Cardinality(Separators) + 1 THEN Len(line)
    ELSE (CHOOSE i \in Separators :
              Cardinality({j \in Separators : j <= i}) = k) - 1

RECURSIVE ValueFrom(_, _)
ValueFrom(i, last) ==
    IF i > last THEN <<>>
    ELSE IF line[i] # QuoteChar \/ LiteralQuote(i)
         THEN <<line[i]>> \o ValueFrom(i + 1, last)
         ELSE ValueFrom(i + 1, last)

\* C21: parseCSVLine splits a line at the commas outside double quotes and
\* only there; a comma inside quotes stays in its field, a doubled double
\* quote inside quotes gives one literal double quote, and the quotes around
\* a field are not in its value.
SplitOutsideQuotesOnly ==
    (caller = "reader" /\ pc = "split") =>
        /\ Len(parsed) = Cardinality(Separators) + 1
        /\ \A k \in 1..Len(parsed) :
               parsed[k] = ValueFrom(PieceStart(k), PieceEnd(k))

\* The line "a,""" of one quoted field with a comma and a doubled quote has
\* been split: the field is a,"
QuotedFieldSplit ==
    /\ caller = "reader"
    /\ pc = "split"
    /\ line = <<QuoteChar, 97, CommaChar, QuoteChar, QuoteChar>>
    /\ parsed = <<<<97, CommaChar, QuoteChar>>>>

\* C30 as stated: for every list of field strings without line breaks, the
\* escapeCSV of each field joined with commas and passed to parseCSVLine
\* gives the original list.
EscapeThenParseIsIdentity ==
    (caller = "fields" /\ pc = "split") => parsed = fields

\* C30: for every list of one or more field strings without line breaks, the
\* escapeCSV of each field joined with commas and passed to parseCSVLine
\* gives the original list; the list of no fields is written as the empty
\* line, which parseCSVLine splits into one empty field.
EscapeThenParseOfFields ==
    (caller = "fields" /\ pc = "split") =>
        IF Len(fields) = 0
        THEN line = <<>> /\ parsed = <<<<>>>>
        ELSE parsed = fields

\* Two fields that both had to be quoted, one with a comma and one with a
\* double quote, have been written and split again
EscapedRowSplit ==
    /\ caller = "fields"
    /\ pc = "split"
    /\ Len(fields) = 2
    /\ includes(fields[1], CommaChar)
    /\ includes(fields[2], QuoteChar)
    /\ Len(line) > Len(fields[1]) + Len(fields[2]) + 1
====
